---- MODULE Spec2Model ----
(***************************************************************************)
(* Model of the herbabot core: the per-recipient rate limiter and the      *)
(* global send queue (safety/rate-limiter), and the dialogue state machine *)
(* (engine/conversation + engine/context-memory + engine/intent-scorer).   *)
(***************************************************************************)
EXTENDS Integers, Sequences, FiniteSets, TLC

(***************************************************************************)
(* Bounds of the model                                                     *)
(***************************************************************************)
\* clock ticks in one rate-limit window (windowMs = 1 hour, in half hours)
WindowTicks == 2
\* config.safety.maxMessagesPerHour as configured for the model
MaxPerHour == 1
\* number of enqueueSend calls in a behaviour
MaxItems == 3
\* number of direct checkRateLimit calls in a behaviour of SpecRate
MaxCalls == 4
\* last clock value: long enough for the counter GC (2 windows) to run
MaxNow == 2 * WindowTicks + 1

Phones == {"A", "B"}
NoRecord == [count |-> 0, windowStart |-> -1]

VARIABLES
  now,              \* Date.now(), in ticks
  messageCounters,  \* Map<phone, MessageRecord>; NoRecord = no entry
  callLog,          \* history: the RateCall calls, in call order
  sendQueue,        \* QueueItem[]
  isProcessing,     \* the processor's flag
  procs,            \* live processQueue activations past the empty check
  nextId,           \* history: number of enqueueSend calls so far + 1
  taken,            \* history: ids in the order they were shifted off
  started,          \* history: ids in the order their action was started
  dropped,          \* history: ids dropped by the rate limit
  settled,          \* history: ids whose action has settled
  threw,            \* history: ids whose action rejected
  directSends,      \* sendText calls in flight that bypass the queue
  dbRows,           \* durable store: the lead's conversation rows, by id
  memoryCache,      \* tier 1: Map<conversationId, LeadMemory>
  redisUp,          \* tier 2 is configured (REDIS_URL set and reachable)
  redis,            \* tier 2: the stored copies, by conversation id
  turn,             \* the processMessage / initiateConversation call in progress
  lastResult,       \* history: what the last call returned, until the next call
  accepted,         \* history: conversations whose commitment flag was set
  turnCount,        \* history: number of calls started
  llm,              \* generateReply's retry loop: attempt, calls made, waits
  lastOp,           \* history: the last context-memory call and its outcome
  persistedCopy,    \* history: the tier-1 entry as the durable row last saved it
  twin,             \* two runs of one conversation fed the same messages
  activeSessions,   \* check-in tier 1: Map<leadPhone, CheckinSession>
  checkinRedis,     \* check-in tier 2: the saved sessions, by phone
  award,            \* the processCheckin call handleCheckinResponse awaits
  inbound,          \* the inbound message handleIncomingMessage is about to route
  lastCheckin,      \* history: how the last inbound message was routed
  sessionCount,     \* history: number of sendDailyCheckin calls so far
  handoffCall,      \* a calculateHandoffScore / shouldHandoff call: inputs and results
  intent,           \* a scoreIntent call: its text, raw sums and IntentScore
  turns,            \* the handler's queued closures, by item id: where each is
  conversation,     \* the lead's memory entry, by phone: its messages [id, role]
  leadStore,        \* the leads table and the getOrCreateLead calls in flight
  gamify,           \* client_gamification, daily_checkins and the processCheckin calls
  levelCall         \* one XP total and the level each of the two functions gives it

dialogVars == <<dbRows, memoryCache, redisUp, redis, turn, lastResult,
                accepted, turnCount>>

checkinVars == <<activeSessions, checkinRedis, award, inbound, lastCheckin, sessionCount>>

scoreVars == <<handoffCall, intent>>

inboundVars == <<turns, conversation>>

storeVars == <<leadStore, gamify, levelCall>>

flowVars == <<checkinVars, scoreVars, inboundVars, storeVars>>

auxVars == <<llm, lastOp, persistedCopy, twin, flowVars>>

queueVars == <<now, messageCounters, callLog, sendQueue, isProcessing, procs,
               nextId, taken, started, dropped, settled, threw, directSends>>

(***************************************************************************)
(* Rate limiter                                                            *)
(***************************************************************************)
\* the window test of checkRateLimit: no record, or the window is over
NewWindow(record, t) ==
  record = NoRecord \/ (t - record.windowStart) > WindowTicks

OverCapOffByOne(record) == record.count > MaxPerHour

\* the cap test of checkRateLimit
OverCap(record) == record.count >= MaxPerHour

BlockedRecordCounting(record) == [record EXCEPT !.count = @ + 1]

\* the record left behind by a blocked call: untouched
BlockedRecord(record) == record

\* checkRateLimit(phone) at time t: the result and the record it leaves
CheckRateLimit(counters, phone, t) ==
  LET record == counters[phone] IN
  IF NewWindow(record, t)
    THEN [allowed |-> TRUE, record |-> [count |-> 1, windowStart |-> t]]
    ELSE IF OverCap(record)
      THEN [allowed |-> FALSE, record |-> BlockedRecord(record)]
      ELSE [allowed |-> TRUE, record |-> [record EXCEPT !.count = @ + 1]]

LogEntry(phone, t, r) ==
  [phone |-> phone, at |-> t, allowed |-> r.allowed,
   windowStart |-> r.record.windowStart]

\* a checkRateLimit call made outside the queue processor
RateCall(phone) ==
  /\ UNCHANGED <<dialogVars, auxVars>>
  /\ Len(callLog) < MaxCalls
  /\ LET r == CheckRateLimit(messageCounters, phone, now) IN
       /\ messageCounters' = [messageCounters EXCEPT ![phone] = r.record]
       /\ callLog' = Append(callLog, LogEntry(phone, now, r))
  /\ UNCHANGED <<now, sendQueue, isProcessing, procs, nextId, taken, started,
                 dropped, settled, threw, directSends>>

\* the clock advances
Tick ==
  /\ UNCHANGED <<dialogVars, auxVars>>
  /\ now < MaxNow
  /\ now' = now + 1
  /\ UNCHANGED <<messageCounters, callLog, sendQueue, isProcessing, procs,
                 nextId, taken, started, dropped, settled, threw, directSends>>

\* the periodic GC of counters older than two windows
CleanCounters ==
  /\ UNCHANGED <<dialogVars, auxVars>>
  /\ \E p \in Phones : messageCounters[p] # NoRecord
                       /\ (now - messageCounters[p].windowStart) > WindowTicks * 2
  /\ messageCounters' =
       [p \in Phones |->
          IF messageCounters[p] # NoRecord
             /\ (now - messageCounters[p].windowStart) > WindowTicks * 2
            THEN NoRecord ELSE messageCounters[p]]
  /\ UNCHANGED <<now, callLog, sendQueue, isProcessing, procs, nextId, taken,
                 started, dropped, settled, threw, directSends>>

(***************************************************************************)
(* Send queue                                                              *)
(***************************************************************************)
\* an activation of processQueue that holds `item`
Act(item, pc, sent) == [item |-> item, pc |-> pc, sent |-> sent]
NoAct == [item |-> [id |-> 0, phone |-> "", sends |-> 0], pc |-> "none", sent |-> 0]

ShiftLast(q) == [item |-> q[Len(q)], rest |-> SubSeq(q, 1, Len(q) - 1)]

\* sendQueue.shift()
Shift(q) == [item |-> Head(q), rest |-> Tail(q)]

KickOffAlways(processing) == TRUE

\* enqueueSend's test before it calls processQueue
KickOff(processing) == ~processing

RequeueDropped(rest, item) == Append(rest, item)

\* the queue after an item was dropped by the rate limit
AfterDrop(rest, item) == rest

AfterExecuteUncaught(ok) == IF ok THEN "delay" ELSE "dead"

\* where processQueue goes once item.execute() has settled (try/catch)
AfterExecute(ok) == "delay"

\* one run of processQueue from its entry to its first await or return,
\* on queue contents q, continuing activation self (NoAct: a fresh call)
ProcessQueue(q, self) ==
  IF q = <<>>
    THEN /\ isProcessing' = FALSE
         /\ sendQueue' = q
         /\ procs' = procs \ {self}
         /\ UNCHANGED <<messageCounters, callLog, taken, started, dropped>>
    ELSE LET s == Shift(q)
             item == s.item
             r == CheckRateLimit(messageCounters, item.phone, now)
         IN /\ isProcessing' = TRUE
            /\ messageCounters' = [messageCounters EXCEPT ![item.phone] = r.record]
            /\ UNCHANGED callLog
            /\ taken' = Append(taken, item.id)
            /\ IF r.allowed
                 THEN /\ sendQueue' = s.rest
                      /\ procs' = (procs \ {self}) \cup {Act(item, "execute", 0)}
                      /\ started' = Append(started, item.id)
                      /\ UNCHANGED dropped
                 ELSE /\ sendQueue' = AfterDrop(s.rest, item)
                      /\ procs' = (procs \ {self}) \cup {Act(item, "immediate", 0)}
                      /\ dropped' = dropped \cup {item.id}
                      /\ UNCHANGED started

\* enqueueSend(phone, fn); fn performs `sends` outbound sends in sequence
EnqueueSend(phone, sends) ==
  /\ UNCHANGED <<dialogVars, auxVars>>
  /\ nextId <= MaxItems
  /\ nextId' = nextId + 1
  /\ LET q == Append(sendQueue, [id |-> nextId, phone |-> phone, sends |-> sends]) IN
       IF KickOff(isProcessing)
         THEN ProcessQueue(q, NoAct)
         ELSE /\ sendQueue' = q
              /\ UNCHANGED <<messageCounters, callLog, isProcessing, procs,
                             taken, started, dropped>>
  /\ UNCHANGED <<now, settled, threw, directSends>>

\* the setImmediate callback runs processQueue again
Immediate(p) ==
  /\ UNCHANGED <<dialogVars, auxVars>>
  /\ p.pc = "immediate"
  /\ ProcessQueue(sendQueue, p)
  /\ UNCHANGED <<now, nextId, settled, threw, directSends>>

\* the running action issues its next outbound send
SendStart(p) ==
  /\ UNCHANGED <<dialogVars, auxVars>>
  /\ p.pc = "execute"
  /\ procs' = (procs \ {p}) \cup {[p EXCEPT !.pc = "sending"]}
  /\ UNCHANGED <<now, messageCounters, callLog, sendQueue, isProcessing,
                 nextId, taken, started, dropped, settled, threw, directSends>>

\* the send in flight completes; the action goes on, resolves or rejects
SendDone(p, ok) ==
  /\ UNCHANGED <<dialogVars, auxVars>>
  /\ p.pc = "sending"
  /\ IF ok /\ p.sent + 1 < p.item.sends
       THEN /\ procs' = (procs \ {p}) \cup {[p EXCEPT !.pc = "execute", !.sent = @ + 1]}
            /\ UNCHANGED <<settled, threw>>
       ELSE /\ procs' = (procs \ {p}) \cup {[p EXCEPT !.pc = AfterExecute(ok), !.sent = @ + 1]}
            /\ settled' = settled \cup {p.item.id}
            /\ threw' = IF ok THEN threw ELSE threw \cup {p.item.id}
  /\ UNCHANGED <<now, messageCounters, callLog, sendQueue, isProcessing,
                 nextId, taken, started, dropped, directSends>>

\* randomDelay(1000, 3000) resolves and setImmediate is scheduled
DelayElapsed(p) ==
  /\ UNCHANGED <<dialogVars, auxVars>>
  /\ p.pc = "delay"
  /\ procs' = (procs \ {p}) \cup {[p EXCEPT !.pc = "immediate"]}
  /\ UNCHANGED <<now, messageCounters, callLog, sendQueue, isProcessing,
                 nextId, taken, started, dropped, settled, threw, directSends>>

\* notifyConsultantAboutProspects: sendText called directly by the cron job
DirectSendStart ==
  /\ UNCHANGED <<dialogVars, auxVars>>
  /\ directSends = 0
  /\ directSends' = 1
  /\ UNCHANGED <<now, messageCounters, callLog, sendQueue, isProcessing, procs,
                 nextId, taken, started, dropped, settled, threw>>

DirectSendDone ==
  /\ UNCHANGED <<dialogVars, auxVars>>
  /\ directSends = 1
  /\ directSends' = 0
  /\ UNCHANGED <<now, messageCounters, callLog, sendQueue, isProcessing, procs,
                 nextId, taken, started, dropped, settled, threw>>


(***************************************************************************)
(* Text primitives (String.prototype.includes, toLowerCase, the name       *)
(* regular expression of extractContextFromMessage)                        *)
(***************************************************************************)
\* s.includes(t)
Includes(s, t) ==
  \E i \in 1..(Len(s) - Len(t) + 1) : SubSeq(s, i, i + Len(t) - 1) = t

\* terms.some(term => text.includes(term))
IncludesAny(s, terms) == \E t \in terms : Includes(s, t)

UpperChars == "ABCDEFGHIJKLMNOPQRSTUVWXYZÀÁÂÃÇÉÊÍÓÔÕÚ"
LowerChars == "abcdefghijklmnopqrstuvwxyzàáâãçéêíóôõú"

LowerChar(c) ==
  IF \E k \in 1..Len(UpperChars) : SubSeq(UpperChars, k, k) = c
    THEN LET k == CHOOSE k \in 1..Len(UpperChars) : SubSeq(UpperChars, k, k) = c
         IN SubSeq(LowerChars, k, k)
    ELSE c

RECURSIVE ToLowerCase(_)
\* s.toLowerCase()
ToLowerCase(s) ==
  IF Len(s) = 0 THEN s
  ELSE IF Len(s) = 1 THEN LowerChar(s)
  ELSE ToLowerCase(SubSeq(s, 1, Len(s) \div 2))
       \o ToLowerCase(SubSeq(s, Len(s) \div 2 + 1, Len(s)))

\* [a-zà-ú] under the i flag, on lower-cased text
LetterChars == "abcdefghijklmnopqrstuvwxyzàáâãäåæçèéêëìíîïðñòóôõö÷øùú"
IsLetter(c) == Includes(LetterChars, c)
IsSpace(c) == c = " "

RECURSIVE SkipSpaces(_, _)
\* \s* : the first position at or after i that holds no white space
SkipSpaces(t, i) ==
  IF i <= Len(t) /\ IsSpace(SubSeq(t, i, i)) THEN SkipSpaces(t, i + 1) ELSE i

RECURSIVE LetterRun(_, _)
\* the length of the maximal run of letters of t that starts at i
LetterRun(t, i) ==
  IF i <= Len(t) /\ IsLetter(SubSeq(t, i, i)) THEN 1 + LetterRun(t, i + 1) ELSE 0

\* the alternatives of the name pattern, in the order the regex tries them
NamePrefixes == <<"me chamo", "meu nome é", "sou a ", "sou o ", "sou ">>

\* the pattern matches at position i with alternative k
NameMatchAt(t, i, k) ==
  LET pre == NamePrefixes[k]
      j == SkipSpaces(t, i + Len(pre))
  IN /\ i + Len(pre) - 1 <= Len(t)
     /\ SubSeq(t, i, i + Len(pre) - 1) = pre
     /\ LetterRun(t, j) >= 2

\* message.match(/(?:me chamo|meu nome é|sou (?:a |o )?)\s*([A-ZÀ-Ú][a-zà-ú]+)/i):
\* capture group 1 of the leftmost match, "" when there is no match
NameMatch(message) ==
  LET t == ToLowerCase(message)
      hits == {ik \in (1..Len(t)) \X (1..Len(NamePrefixes)) : NameMatchAt(t, ik[1], ik[2])}
  IN IF hits = {} THEN ""
     ELSE LET ik == CHOOSE h \in hits :
                      \A g \in hits : h[1] < g[1] \/ (h[1] = g[1] /\ h[2] <= g[2])
              j == SkipSpaces(t, ik[1] + Len(NamePrefixes[ik[2]]))
          IN SubSeq(message, j, j + LetterRun(t, j) - 1)

(***************************************************************************)
(* Intent scorer: conversation signals and handoff score                   *)
(***************************************************************************)
PriceTerms == {"quanto custa", "quanto é", "qual o valor", "preço", "valor", "custo", "investimento"}
StartTerms == {"como começo", "como compro", "como fazer", "como faço", "quero começar", "quero comprar"}
InterestTerms == {"tenho interesse", "gostei", "quero saber mais", "me conta mais", "me explica", "me manda", "quero"}
PainTerms == {"sofro", "sofro com", "me incomoda", "me frustra", "não consigo", "tenho dificuldade", "problema"}
BusinessTerms == {"negócio", "ganhar dinheiro com", "como funciona o negócio", "como vender", "ser consultor", "ser consultora"}
PositiveTerms == {"sim", "claro", "com certeza", "ótimo", "pode ser", "tá bom", "tudo bem", "ok"}
ColdTerms == {"não tenho interesse", "não quero", "deixa pra lá", "não preciso", "chega"}

\* detectConversationSignals(message), as the set of pushed signals
DetectConversationSignals(message) ==
  LET text == ToLowerCase(message) IN
    (IF IncludesAny(text, PriceTerms) THEN {"asked_about_price"} ELSE {})
    \cup (IF IncludesAny(text, StartTerms) THEN {"asked_how_to_start"} ELSE {})
    \cup (IF IncludesAny(text, InterestTerms) THEN {"expressed_interest"} ELSE {})
    \cup (IF IncludesAny(text, PainTerms) THEN {"shared_pain"} ELSE {})
    \cup (IF IncludesAny(text, BusinessTerms) THEN {"asked_about_business"} ELSE {})
    \cup (IF IncludesAny(text, PositiveTerms) THEN {"responded_positively"} ELSE {})
    \cup (IF IncludesAny(text, ColdTerms) THEN {"rejected"} ELSE {})

SIGNAL_WEIGHTS ==
  [responded_positively |-> 10, asked_about_price |-> 25,
   asked_how_to_start |-> 30, expressed_interest |-> 20, shared_pain |-> 15,
   accepted_commitment |-> 25, went_cold |-> -10, rejected |-> -40,
   asked_about_business |-> 20]

RECURSIVE SumWeights(_)
SumWeights(signals) ==
  IF signals = {} THEN 0
  ELSE LET sg == CHOOSE x \in signals : TRUE
       IN SIGNAL_WEIGHTS[sg] + SumWeights(signals \ {sg})

Min(a, b) == IF a < b THEN a ELSE b
Max(a, b) == IF a > b THEN a ELSE b

CalculateHandoffScoreUnfloored(baseScore, signals) ==
  Min(100, baseScore + SumWeights(signals))

\* calculateHandoffScore(baseScore, signals)
CalculateHandoffScore(baseScore, signals) ==
  Max(0, Min(100, baseScore + SumWeights(signals)))

HandoffThreshold == 75

ShouldHandoffStrict(handoffScore) == handoffScore > HandoffThreshold

\* shouldHandoff(handoffScore)
ShouldHandoff(handoffScore) == handoffScore >= HandoffThreshold

\* the base scores calculateHandoffScore is called with
BaseScores == {-20, 0, 40, 41, 74, 75, 100, 130}

AllSignals == DOMAIN SIGNAL_WEIGHTS

NoHandoff ==
  [pc |-> "idle", baseScore |-> 0, signals |-> {}, score |-> 0, handoff |-> FALSE]

(***************************************************************************)
(* Lead scorer: scoreIntent                                                *)
(***************************************************************************)
PRODUCT_KEYWORDS ==
  [high |->
     <<"não consigo emagrecer", "sem energia", "sempre cansada", "sempre cansado",
       "não aguento mais", "barriga não sai", "já tentei tudo", "nada funciona",
       "inchada", "inchado", "cansada o tempo todo", "cansado o tempo todo",
       "me sentindo mal", "sem disposição", "preciso perder peso urgente",
       "estou desesperada", "estou desesperado", "parei de emagrecer",
       "fome o tempo todo", "compulsão alimentar", "não consigo parar de comer">>,
   medium |->
     <<"perder peso", "emagrecer", "energia", "cansaço", "fadiga",
       "alimentação saudável", "dieta", "emagrecimento", "detox", "suplemento",
       "shake", "proteína", "vitamina", "nutrição", "saúde",
       "academia", "treino", "fitness", "musculação", "funcional",
       "barriga", "peso", "balança", "quilos", "kg">>,
   low |->
     <<"receita saudável", "smoothie", "salada", "alimentação", "hábitos",
       "bem-estar", "qualidade de vida", "vida saudável", "saúde e bem estar",
       "corpo", "mente", "equilíbrio", "leveza">>]

BUSINESS_KEYWORDS ==
  [high |->
     <<"renda extra urgente", "preciso de dinheiro", "estou desempregado",
       "estou desempregada", "saí do emprego", "fui demitido", "fui demitida",
       "quero empreender", "quero meu próprio negócio", "cansada de chefe",
       "cansado de chefe", "trabalhar de casa", "trabalhar em casa",
       "liberdade financeira", "independência financeira">>,
   medium |->
     <<"renda extra", "ganhar dinheiro", "fazer uma grana", "negócio próprio",
       "empreendedorismo", "empreender", "autônomo", "autônoma",
       "freelancer", "home office", "trabalhar online", "renda passiva",
       "investimento", "crescimento financeiro", "mercado digital">>,
   low |->
     <<"crescimento", "oportunidade", "futuro", "sonho", "meta financeira",
       "dinheiro", "salário", "renda", "ganho", "profissional">>]

URGENCY_KEYWORDS ==
  [high |->
     <<"urgente", "agora", "já", "preciso logo", "o mais rápido possível",
       "não posso esperar", "semana que vem é casamento", "evento",
       "formatura", "viagem", "foto", "biquíni", "prova">>,
   medium |->
     <<"esse mês", "esse ano", "em breve", "logo", "quero começar",
       "pensando em", "considerando", "avaliando">>,
   low |->
     <<"futuramente", "um dia", "talvez", "quem sabe", "quando der",
       "quando puder", "mais pra frente">>]

AccentedChars == "àáâãçéêíóôõú"
BaseChars == "aaaaceeiooou"

\* NFD decomposition of a character with its combining marks removed
BaseChar(c) ==
  IF \E k \in 1..Len(AccentedChars) : SubSeq(AccentedChars, k, k) = c
    THEN LET k == CHOOSE k \in 1..Len(AccentedChars) : SubSeq(AccentedChars, k, k) = c
         IN SubSeq(BaseChars, k, k)
    ELSE c

RECURSIVE StripAccents(_)
\* s.normalize('NFD').replace(/[̀-ͯ]/g, '')
StripAccents(s) ==
  IF Len(s) = 0 THEN s
  ELSE IF Len(s) = 1 THEN BaseChar(s)
  ELSE StripAccents(SubSeq(s, 1, Len(s) \div 2))
       \o StripAccents(SubSeq(s, Len(s) \div 2 + 1, Len(s)))

\* normalize(text)
Normalize(text) == StripAccents(ToLowerCase(text))

Levels == {"high", "medium", "low"}

NormalizedKeywords(table) ==
  [l \in Levels |-> [i \in DOMAIN table[l] |-> Normalize(table[l][i])]]

ProductNormalized == NormalizedKeywords(PRODUCT_KEYWORDS)
BusinessNormalized == NormalizedKeywords(BUSINESS_KEYWORDS)
UrgencyNormalized == NormalizedKeywords(URGENCY_KEYWORDS)

\* the keywords of a list that normalizedText includes
Matched(normalizedText, keywords) ==
  {i \in DOMAIN keywords : Includes(normalizedText, keywords[i])}

\* the sum one category's three loops leave in its raw counter
RawScore(normalizedText, table, high, medium, low) ==
  high * Cardinality(Matched(normalizedText, table.high))
  + medium * Cardinality(Matched(normalizedText, table.medium))
  + low * Cardinality(Matched(normalizedText, table.low))

\* matchedKeywords of a category, as their number
MatchCount(normalizedText, table) ==
  Cardinality(Matched(normalizedText, table.high))
  + Cardinality(Matched(normalizedText, table.medium))
  + Cardinality(Matched(normalizedText, table.low))

ClampScoreOff(raw) == raw

\* Math.min(100, raw)
ClampScore(raw) == Min(100, raw)

\* Math.round(sum / 3) for an integer sum
RoundedMean(sum) == (2 * sum + 3) \div 6

PrimaryProfileAbove(productScore, businessScore) ==
  IF productScore > 30 /\ businessScore > 30 THEN "both"
  ELSE IF productScore > 30 THEN "product"
  ELSE IF businessScore > 30 THEN "business"
  ELSE "none"

PrimaryProfile(productScore, businessScore) ==
  IF productScore >= 30 /\ businessScore >= 30 THEN "both"
  ELSE IF productScore >= 30 THEN "product"
  ELSE IF businessScore >= 30 THEN "business"
  ELSE "none"

Priority(totalScore, urgencyScore) ==
  IF totalScore >= 70 \/ urgencyScore >= 60 THEN "immediate"
  ELSE IF totalScore >= 40 THEN "nurturing"
  ELSE "passive"

WithTotal(productScore, businessScore, urgencyScore, totalScore, matched) ==
  [productScore |-> productScore, businessScore |-> businessScore,
   urgencyScore |-> urgencyScore, totalScore |-> totalScore,
   primaryProfile |-> PrimaryProfile(productScore, businessScore),
   priority |-> Priority(totalScore, urgencyScore),
   matchedKeywords |-> matched]

WithScores(productScore, businessScore, urgencyScore, matched) ==
  WithTotal(productScore, businessScore, urgencyScore,
            RoundedMean(productScore + businessScore + urgencyScore), matched)

\* the raw sums of the three categories
RawScores(normalizedText) ==
  [product |-> RawScore(normalizedText, ProductNormalized, 35, 15, 5),
   business |-> RawScore(normalizedText, BusinessNormalized, 35, 15, 5),
   urgency |-> RawScore(normalizedText, UrgencyNormalized, 40, 20, 5)]

MatchCounts(normalizedText) ==
  [product |-> MatchCount(normalizedText, ProductNormalized),
   business |-> MatchCount(normalizedText, BusinessNormalized),
   urgency |-> MatchCount(normalizedText, UrgencyNormalized)]

Scored(raw, matched) ==
  WithScores(ClampScore(raw.product), ClampScore(raw.business),
             ClampScore(raw.urgency), matched)

\* scoreIntent(text)
ScoreIntentOf(text) ==
  Scored(RawScores(Normalize(text)), MatchCounts(Normalize(text)))

MaxPhrases == 2

\* what the scored texts are put together from
IntentPhrases ==
  {"não consigo emagrecer, sempre cansada, nada funciona",
   "Sem Energia", "dieta", "shake",
   "renda extra urgente, preciso de dinheiro, quero empreender",
   "trabalhar de casa", "agora já", "evento em breve", "saúde",
   "olá, bom dia"}

RECURSIVE JoinPhrases(_)
JoinPhrases(phrases) ==
  IF Len(phrases) = 0 THEN ""
  ELSE IF Len(phrases) = 1 THEN phrases[1]
  ELSE phrases[1] \o " " \o JoinPhrases(Tail(phrases))

IntentTexts ==
  {JoinPhrases(phrases) :
     phrases \in UNION {[1..n -> IntentPhrases] : n \in 0..MaxPhrases}}

NoRaw == [product |-> 0, business |-> 0, urgency |-> 0]

NoIntent ==
  [pc |-> "idle", text |-> "", raw |-> NoRaw, score |-> WithScores(0, 0, 0, NoRaw)]

ScoreIdle ==
  /\ handoffCall = NoHandoff
  /\ intent = NoIntent

\* a closure that has not got past its first await
NoTurn == [pc |-> "none"]

InboundIdle ==
  /\ turns = [id \in 1..MaxItems |-> NoTurn]
  /\ conversation = [ph \in Phones |-> <<>>]

\* number of webhook events whose handler reaches getOrCreateLead
MaxHandlers == 3
\* number of processCheckin calls in a behaviour
MaxCheckinCalls == 2
\* last calendar day of a behaviour of the gamification engine
MaxDays == 2
\* largest XP total given to the two level functions
MaxXp == 4100

\* a webhook event that has not arrived
NoLeadCall == [pc |-> "none", phone |-> "", lead |-> 0]

\* the leads table is empty, no getOrCreateLead call is in flight
NoLeads == [rows |-> <<>>, calls |-> [h \in 1..MaxHandlers |-> NoLeadCall]]

\* the client_gamification row a new project gets (column defaults)
NewGamification ==
  [xp_total |-> 0, level |-> 1, current_streak |-> 0, max_streak |-> 0,
   checkin_count_total |-> 0, checkin_count_30d |-> 0, last_checkin_at |-> 0]

\* a processCheckin call that has not been made
\* the CheckinData of a call: weightKg 0 stands for undefined
NoCheckinData ==
  [shakeAm |-> FALSE, shakePm |-> FALSE, hydrationOk |-> FALSE,
   supplementOk |-> FALSE, weightKg |-> 0]

NoCheckinCall ==
  [pc |-> "none", via |-> "", today |-> 0, data |-> NoCheckinData,
   xpEarned |-> 0, newStreak |-> 0, newMax |-> 0, newXp |-> 0, newLevel |-> 0,
   counts |-> 0, stamp |-> 0, returned |-> -1]

\* the WhatsApp flow (handleCheckinResponse) and POST /api/client/checkin
CheckinCallers == {"whatsapp", "api"}

\* one project on its first day: no check-in rows, no call in flight; made
\* counts the calls so far, awards the calls of each day that returned XP
NoGamify ==
  [day |-> 1, checkins |-> {}, gam |-> NewGamification,
   calls |-> [k \in CheckinCallers |-> NoCheckinCall],
   made |-> 0, awards |-> [d \in 1..MaxDays |-> 0]]

\* no XP total chosen yet
NoLevelCall == [pc |-> "idle", xp |-> 0, engine |-> 0, dashboard |-> 0]

StoreIdle ==
  /\ leadStore = NoLeads
  /\ gamify = NoGamify
  /\ levelCall = NoLevelCall

(***************************************************************************)
(* Conversation memory (engine/context-memory)                             *)
(***************************************************************************)
\* processMessage / initiateConversation calls in a behaviour
MaxTurns == 2
\* every turn can create at most one conversation; one may exist at start
ConvIds == 1..(MaxTurns + 1)

PRODUCT_FLOW ==
  <<"ice_break", "situation", "problem", "implication", "commitment",
    "transition", "closed">>
BUSINESS_FLOW ==
  <<"biz_ice_break", "biz_qualification", "biz_implication", "biz_commitment",
    "transition", "closed">>

NoMemory == [spinStage |-> "none"]
NoRow == [status |-> "none"]

\* a LeadContextData object; "" and <<>> stand for an absent key
Context(name, profile, source) ==
  [name |-> name, pain_points |-> <<>>, profile_type |-> profile,
   commitment_accepted |-> FALSE, source_context |-> source]

\* createMemory(params)
CreateMemory(initialContext) ==
  [spinStage |-> "ice_break", messages |-> <<>>, context |-> initialContext,
   signals |-> {}, handoffScore |-> 0, messageCount |-> 0, old |-> FALSE]

\* restoreMemory(params) from a durable-store row
RestoreMemory(row) ==
  [spinStage |-> row.spin_stage, messages |-> row.messages,
   context |-> row.context_data, signals |-> {}, handoffScore |-> 0,
   messageCount |-> Len(row.messages), old |-> FALSE]

AddMessageReplacing(memory, role) ==
  [memory EXCEPT !.messages = <<role>>, !.messageCount = @ + 1, !.old = FALSE]

\* addMessage(conversationId, role, content)
AddMessage(memory, role) ==
  [memory EXCEPT !.messages = Append(@, role), !.messageCount = @ + 1,
                 !.old = FALSE]

\* updateContext(conversationId, updates): { ...memory.context, ...updates }
UpdateContext(memory, updates) ==
  [memory EXCEPT
     !.context = [k \in DOMAIN memory.context |->
                    IF k \in DOMAIN updates THEN updates[k] ELSE memory.context[k]],
     !.old = FALSE]

\* addSignal(conversationId, signal) for each detected signal
AddSignals(memory, signals) == [memory EXCEPT !.signals = @ \cup signals]

\* updateHandoffScore(conversationId, score)
UpdateHandoffScore(memory, score) == [memory EXCEPT !.handoffScore = score]

\* (flow as readonly string[]).indexOf(stage), 1-based, 0 when absent
IndexOf(flow, stage) ==
  IF \E i \in DOMAIN flow : flow[i] = stage
    THEN CHOOSE i \in DOMAIN flow : flow[i] = stage
    ELSE 0

\* the flow advanceStage selects
FlowOf(context) ==
  IF context.profile_type = "business" THEN BUSINESS_FLOW ELSE PRODUCT_FLOW

NextStageWrapping(memory) ==
  LET flow == FlowOf(memory.context)
  IN flow[(IndexOf(flow, memory.spinStage) % Len(flow)) + 1]

\* the stage advanceStage moves to
NextStage(memory) ==
  LET flow == FlowOf(memory.context)
  IN flow[Min(IndexOf(flow, memory.spinStage) + 1, Len(flow))]

\* advanceStage(conversationId)
AdvanceStage(memory) ==
  [memory EXCEPT !.spinStage = NextStage(memory), !.old = FALSE]

\* serializeMemory(conversationId) written by db.conversations.update
Persisted(row, memory, status, handoffTriggered) ==
  [row EXCEPT !.spin_stage = memory.spinStage, !.messages = memory.messages,
              !.context_data = memory.context, !.status = status,
              !.handoff_triggered = handoffTriggered]

(***************************************************************************)
(* Dialogue state machine (engine/conversation)                            *)
(***************************************************************************)
\* inbound messages the lead can send
Inbox ==
  {"Sim",
   "quanto custa? como compro? quero renda extra",
   "quero ganhar dinheiro com um negócio próprio",
   "Me chamo Ana e tenho problema de sono"}

\* the pain points extractContextFromMessage pushes, in order
PainsOf(text) ==
  (IF Includes(text, "energia") THEN <<"falta de energia">> ELSE <<>>)
  \o (IF Includes(text, "cansad") THEN <<"cansaço crônico">> ELSE <<>>)
  \o (IF Includes(text, "emagrec") \/ Includes(text, "peso")
        THEN <<"dificuldade para emagrecer">> ELSE <<>>)
  \o (IF Includes(text, "barriga") THEN <<"barriga inchada">> ELSE <<>>)
  \o (IF Includes(text, "disposiç") THEN <<"falta de disposição">> ELSE <<>>)
  \o (IF Includes(text, "sono") THEN <<"problemas de sono">> ELSE <<>>)
  \o (IF Includes(text, "ansied") THEN <<"ansiedade alimentar">> ELSE <<>>)

BusinessVocabulary == {"renda", "dinheiro", "negócio", "empreend"}

\* replies of 25 characters: small talk, one with business vocabulary, one
\* asking for price and how to buy
Replies25 ==
  {"Oi, tudo certo por aqui!!",
   "quero renda extra em casa",
   "quero valor, como faço???"}

Texts == Inbox \cup Replies25

\* the text analysis of each inbound message, evaluated once
SignalsOf == [m \in Texts |-> DetectConversationSignals(m)]
LengthOf == [m \in Texts |-> Len(m)]
NameOf == [m \in Texts |-> NameMatch(m)]
PainsIn == [m \in Texts |-> PainsOf(ToLowerCase(m))]
BusinessIn == [m \in Texts |-> IncludesAny(ToLowerCase(m), BusinessVocabulary)]

\* extractContextFromMessage(message, currentContext): the updates object,
\* a function from the keys it sets to their values
ExtractContextFromMessage(message, currentContext) ==
  LET name == NameOf[message]
      pains == PainsIn[message]
      keys == (IF name # "" /\ currentContext.name = "" THEN {"name"} ELSE {})
              \cup (IF pains # <<>> THEN {"pain_points"} ELSE {})
              \cup (IF BusinessIn[message] /\ currentContext.profile_type = ""
                      THEN {"profile_type"} ELSE {})
  IN [k \in keys |->
        CASE k = "name" -> name
          [] k = "pain_points" -> currentContext.pain_points \o pains
          [] k = "profile_type" -> "business"]


\* shouldAdvanceStage(memory, signals, userMessage)
ShouldAdvanceStage(memory, signals, length) ==
  LET spinStage == memory.spinStage
      positiveResponse == signals \cap {"responded_positively", "expressed_interest", "shared_pain"} # {}
  IN \/ spinStage = "ice_break" /\ length > 20
     \/ spinStage = "situation" /\ length > 30
     \/ spinStage = "problem" /\ ("shared_pain" \in signals \/ length > 20)
     \/ spinStage = "implication" /\ positiveResponse
     \/ spinStage = "commitment" /\ positiveResponse

HandoffGuardNoFlag(score, context) == ShouldHandoff(score)

\* the test of the handoff short-circuit of processMessage
HandoffGuard(score, context) ==
  ShouldHandoff(score) /\ ~context.commitment_accepted

\* history of an advanceStage call: the stage before, after, and the profile
NoAdvance == [from |-> "", to |-> "", profile |-> ""]

IdleTurn ==
  [pc |-> "idle", kind |-> "", msg |-> "", initialContext |-> Context("", "", ""),
   conv |-> 0, branch |-> "", score |-> 0, updates |-> <<>>,
   before |-> NoMemory, acceptedBefore |-> FALSE, reply |-> "",
   stage |-> "", nextAction |-> "", advance |-> NoAdvance]

NoResult ==
  [kind |-> "none", conv |-> 0, reply |-> "", spinStage |-> "",
   handoffTriggered |-> FALSE, handoffScore |-> 0, contextUpdated |-> <<>>,
   nextAction |-> "", before |-> NoMemory, after |-> NoMemory,
   acceptedBefore |-> FALSE, advance |-> NoAdvance]

\* redisSet(key, value): a no-op without a client; ok: the SET command
\* succeeded (its failure is logged inside redisSet)
RedisSet(c, memory, ok) ==
  redis' = IF redisUp /\ ok THEN [redis EXCEPT ![c] = memory] ELSE redis

\* _persistToRedis(memory) when tier 2, if configured, answers
PersistToRedis(c, memory) == RedisSet(c, memory, TRUE)

\* findActive: the newest row of the lead with status 'active', 0 if none
ActiveConv ==
  IF \E c \in ConvIds : dbRows[c].status = "active"
    THEN CHOOSE c \in ConvIds :
           /\ dbRows[c].status = "active"
           /\ \A d \in ConvIds : dbRows[d].status = "active" => d <= c
    ELSE 0

\* the id the durable store gives the next inserted row
FreshConv == CHOOSE c \in ConvIds : dbRows[c] = NoRow /\ \A d \in 1..(c - 1) : dbRows[d] # NoRow

\* processMessage(params) is called with an inbound message
ProcessMessageStart(m, pushName) ==
  /\ turn.pc = "idle"
  /\ turnCount < MaxTurns
  /\ turnCount' = turnCount + 1
  /\ turn' = [IdleTurn EXCEPT !.pc = "findActive", !.kind = "message", !.msg = m,
                              !.initialContext = Context(pushName, "", "")]
  /\ lastResult' = NoResult
  /\ UNCHANGED <<dbRows, memoryCache, redis, accepted>>
  /\ UNCHANGED <<redisUp, queueVars, auxVars>>

\* initiateConversation(params) is called (params.profileType ?? 'product')
InitiateConversationStart(profileType) ==
  /\ turn.pc = "idle"
  /\ turnCount < MaxTurns
  /\ turnCount' = turnCount + 1
  /\ turn' = [IdleTurn EXCEPT !.pc = "findActive", !.kind = "initiate",
                              !.initialContext = Context("", profileType, "source")]
  /\ lastResult' = NoResult
  /\ UNCHANGED <<dbRows, memoryCache, redis, accepted>>
  /\ UNCHANGED <<redisUp, queueVars, auxVars>>

\* processMessage on the turn that does not hand off, after updateContext:
\* the commitment_accepted update
WithCommitment(m3, signals, score, contextUpdates) ==
  [memory |-> IF /\ "responded_positively" \in signals
                 /\ m3.spinStage \in {"commitment", "biz_commitment"}
                THEN UpdateContext(m3, [commitment_accepted |-> TRUE]) ELSE m3,
   handoff |-> FALSE, score |-> score, updates |-> contextUpdates]

\* ... after extractContextFromMessage returned contextUpdates:
\* updateContext when Object.keys(contextUpdates).length > 0
WithContext(m2, signals, score, contextUpdates) ==
  WithCommitment(IF DOMAIN contextUpdates # {}
                   THEN UpdateContext(m2, contextUpdates) ELSE m2,
                 signals, score, contextUpdates)

\* ... after updateHandoffScore: the handoff test; the handoff branch
\* extracts no context
WithScore(m2, msg, signals, newHandoffScore) ==
  IF HandoffGuard(newHandoffScore, m2.context)
    THEN [memory |-> m2, handoff |-> TRUE, score |-> newHandoffScore,
          updates |-> <<>>]
    ELSE WithContext(m2, signals, newHandoffScore,
                     ExtractContextFromMessage(msg, m2.context))

\* ... after detectConversationSignals returned signals: addSignal for each,
\* calculateHandoffScore on the memory's score, updateHandoffScore
WithSignals(m1, msg, signals, newHandoffScore) ==
  WithScore(UpdateHandoffScore(AddSignals(m1, signals), newHandoffScore),
            msg, signals, newHandoffScore)

\* ... after addMessage(user)
WithUserMessage(m1, msg, signals) ==
  WithSignals(m1, msg, signals, CalculateHandoffScore(m1.handoffScore, signals))

\* processMessage from addMessage(user) up to its await of generateReply, on
\* the memory getOrCreateConversation returned: the memory it leaves, whether
\* it took the handoff branch, the score and the context updates it reports
AfterUserMessage(memory, msg) ==
  WithUserMessage(AddMessage(memory, "user"), msg, SignalsOf[msg])

\* the tier-1 entry and the turn once processMessage awaits generateReply
\* (r: what AfterUserMessage computed)
UserTurn(c, memory, r) ==
  /\ memoryCache' = [memoryCache EXCEPT ![c] = r.memory]
  /\ PersistToRedis(c, r.memory)
  /\ turn' = [turn EXCEPT !.pc = "llm", !.conv = c,
                !.branch = IF r.handoff THEN "handoff" ELSE "normal",
                !.score = r.score,
                !.updates = r.updates,
                !.before = memory,
                !.acceptedBefore = c \in accepted]
  /\ accepted' = IF r.memory.context.commitment_accepted
                   THEN accepted \cup {c} ELSE accepted

\* processMessage from the memory returned by getOrCreateConversation up to
\* its await of generateReply; wrote: the memory was just written to tier 2
Resolved(c, memory, wrote) ==
  IF turn.kind = "initiate"
    THEN /\ memoryCache' = [memoryCache EXCEPT ![c] = memory]
         /\ IF wrote THEN PersistToRedis(c, memory) ELSE UNCHANGED redis
         /\ turn' = [turn EXCEPT !.pc = "llm", !.conv = c,
                                 !.branch = "initiate", !.before = memory,
                                 !.acceptedBefore = c \in accepted]
         /\ UNCHANGED accepted
    ELSE UserTurn(c, memory, AfterUserMessage(memory, turn.msg))

\* db.conversations.findActive answers; a failed query yields data = null
FindActive(ok) ==
  /\ turn.pc = "findActive"
  /\ LET c == IF ok THEN ActiveConv ELSE 0 IN
       IF c # 0
         THEN IF memoryCache[c] # NoMemory
                THEN Resolved(c, memoryCache[c], FALSE)
                ELSE /\ turn' = [turn EXCEPT !.pc = "redisGet", !.conv = c]
                     /\ UNCHANGED <<memoryCache, redis, accepted>>
         ELSE /\ turn' = [turn EXCEPT !.pc = "create"]
              /\ UNCHANGED <<memoryCache, redis, accepted>>
  /\ UNCHANGED <<dbRows, lastResult, turnCount>>
  /\ UNCHANGED <<redisUp, queueVars, auxVars>>

\* getMemoryAsync after the tier-1 miss: redisGet answers; on a miss or a
\* failure the memory is rebuilt from the row with restoreMemory
RedisGet ==
  /\ turn.pc = "redisGet"
  /\ LET c == turn.conv
         raw == IF redisUp THEN redis[c] ELSE NoMemory
     IN IF raw # NoMemory
          THEN Resolved(c, raw, FALSE)
          ELSE Resolved(c, RestoreMemory(dbRows[c]), TRUE)
  /\ UNCHANGED <<dbRows, lastResult, turnCount>>
  /\ UNCHANGED <<redisUp, queueVars, auxVars>>

\* db.conversations.create answers; on an error it throws and the call rejects
CreateConversation(ok) ==
  /\ turn.pc = "create"
  /\ IF ok
       THEN /\ dbRows' = [dbRows EXCEPT ![FreshConv] =
                            [status |-> "active", spin_stage |-> "ice_break",
                             messages |-> <<>>, context_data |-> turn.initialContext,
                             handoff_triggered |-> FALSE]]
            /\ Resolved(FreshConv, CreateMemory(turn.initialContext), TRUE)
            /\ UNCHANGED lastResult
       ELSE /\ turn' = IdleTurn
            /\ lastResult' = [NoResult EXCEPT !.kind = "threw"]
            /\ UNCHANGED <<dbRows, memoryCache, redis, accepted>>
  /\ UNCHANGED turnCount
  /\ UNCHANGED <<redisUp, queueVars, auxVars>>

ShouldAdvanceOnCompletion(memory, msg, reply) ==
  reply = "completion" /\ ShouldAdvanceStage(memory, SignalsOf[msg], LengthOf[msg])

\* the call shouldAdvanceStage(memory, signals, params.userMessage) of
\* processMessage: the reply is not among its arguments
ShouldAdvance(memory, msg, reply) ==
  ShouldAdvanceStage(memory, SignalsOf[msg], LengthOf[msg])

\* what the turn leaves and reports once the stage decision is taken: m1 the
\* entry after addMessage(assistant), m2 after advanceStage if it was called
WithStage(m1, m2, branch, shouldAdvance) ==
  [memory |-> m2,
   advance |-> IF shouldAdvance
                 THEN [from |-> m1.spinStage, to |-> m2.spinStage,
                       profile |-> m1.context.profile_type]
                 ELSE NoAdvance,
   stage |-> m1.spinStage,
   nextAction |-> IF branch = "handoff" THEN "handoff"
                  ELSE IF shouldAdvance /\ m2.spinStage = "transition"
                    THEN "request_whatsapp" ELSE "continue"]

\* if (shouldAdvance) advanceStage(memory.conversationId)
WithDecision(m1, branch, shouldAdvance) ==
  WithStage(m1, IF shouldAdvance THEN AdvanceStage(m1) ELSE m1, branch, shouldAdvance)

\* processMessage / initiateConversation after generateReply returned `reply`,
\* on the tier-1 entry: addMessage(assistant) and, on the normal branch, the
\* stage decision; the memory it leaves and what the result reports
WithReply(m1, branch, msg, reply) ==
  WithDecision(m1, branch, branch = "normal" /\ ShouldAdvance(m1, msg, reply))

AfterReply(memory, branch, msg, reply) ==
  WithReply(AddMessage(memory, "assistant"), branch, msg, reply)

\* the tier-1 entry and the turn once the reply is added (r: what AfterReply
\* computed)
Replied(c, reply, r) ==
  /\ memoryCache' = [memoryCache EXCEPT ![c] = r.memory]
  /\ PersistToRedis(c, r.memory)
  /\ turn' = [turn EXCEPT !.pc = "persist", !.reply = reply,
                          !.advance = r.advance,
                          !.stage = r.stage,
                          !.nextAction = r.nextAction]

\* the reply generateReply returns
ReplyText(ok) == IF ok THEN "completion" ELSE "fallback"

\* generateReply has returned (ok: a completion, otherwise the fallback text)
\* and the call runs on to persistConversation
ReplyReturned(ok) ==
  /\ turn.pc = "llm"
  /\ IF memoryCache[turn.conv] # NoMemory
       THEN Replied(turn.conv, ReplyText(ok),
                    AfterReply(memoryCache[turn.conv], turn.branch, turn.msg,
                               ReplyText(ok)))
       ELSE /\ turn' = [turn EXCEPT !.pc = "persist", !.reply = ReplyText(ok),
                                    !.nextAction = "continue"]
            /\ UNCHANGED <<memoryCache, redis>>
  /\ UNCHANGED <<dbRows, lastResult, accepted, turnCount>>
  /\ UNCHANGED <<redisUp, queueVars>>

\* generateReply returns: one of its attempts (at most 3) answered (ok), or
\* all failed and the fallback text is used
GenerateReply(ok) ==
  /\ ReplyReturned(ok)
  /\ UNCHANGED auxVars

UpdateThrowsUncaught(ok) == ~ok

\* persistConversation's try / catch around db.conversations.update: the
\* error is logged, never rethrown
UpdateThrows(ok) == FALSE

\* persistConversation: db.conversations.update answers (an error is logged
\* and swallowed), then the call returns its result
PersistConversation(ok) ==
  /\ turn.pc = "persist"
  /\ LET c == turn.conv
         found == memoryCache[c] # NoMemory
         handoff == turn.branch = "handoff"
     IN /\ dbRows' =
             IF found /\ ok
               THEN [dbRows EXCEPT ![c] =
                       Persisted(@, memoryCache[c],
                                 IF handoff THEN "negotiating" ELSE "active", handoff)]
               ELSE dbRows
        /\ lastResult' =
             IF found /\ UpdateThrows(ok) THEN [NoResult EXCEPT !.kind = "threw"] ELSE
             [kind |-> turn.kind, conv |-> c, reply |-> turn.reply,
              spinStage |-> turn.stage, handoffTriggered |-> handoff,
              handoffScore |-> turn.score, contextUpdated |-> turn.updates,
              nextAction |-> turn.nextAction, before |-> turn.before,
              after |-> memoryCache[c], acceptedBefore |-> turn.acceptedBefore,
              advance |-> turn.advance]
  /\ turn' = IdleTurn
  /\ UNCHANGED <<memoryCache, redis, accepted, turnCount>>
  /\ UNCHANGED <<redisUp, queueVars, auxVars>>

\* more than maxAgeHours pass with no call in progress: every stored
\* lastUpdated is now before the sweep's cutoff
DayPasses ==
  /\ turn.pc = "idle"
  /\ turnCount < MaxTurns
  /\ \E c \in ConvIds : memoryCache[c] # NoMemory /\ ~memoryCache[c].old
  /\ memoryCache' = [c \in ConvIds |->
       IF memoryCache[c] = NoMemory THEN NoMemory ELSE [memoryCache[c] EXCEPT !.old = TRUE]]
  /\ redis' = [c \in ConvIds |->
       IF redis[c] = NoMemory THEN NoMemory ELSE [redis[c] EXCEPT !.old = TRUE]]
  /\ UNCHANGED <<dbRows, turn, lastResult, accepted, turnCount>>
  /\ UNCHANGED <<redisUp, queueVars, auxVars>>

\* cleanOldMemories(24), run by the 6-hourly timer
CleanOldMemories ==
  /\ turnCount < MaxTurns \/ turn.pc # "idle"
  /\ \E c \in ConvIds : memoryCache[c] # NoMemory /\ memoryCache[c].old
  /\ memoryCache' = [c \in ConvIds |->
       IF memoryCache[c] # NoMemory /\ memoryCache[c].old THEN NoMemory ELSE memoryCache[c]]
  /\ UNCHANGED <<dbRows, redis, turn, lastResult, accepted, turnCount>>
  /\ UNCHANGED <<redisUp, queueVars, auxVars>>

\* the process restarts: tier 1 is empty and the call in progress is gone
Restart ==
  /\ \/ turn.pc # "idle"
     \/ turnCount < MaxTurns /\ \E c \in ConvIds : memoryCache[c] # NoMemory
  /\ memoryCache' = [c \in ConvIds |-> NoMemory]
  /\ turn' = IdleTurn
  /\ UNCHANGED <<dbRows, redis, lastResult, accepted, turnCount>>
  /\ UNCHANGED <<redisUp, queueVars, auxVars>>

\* a tier-2 key reaches its TTL (48h after its last write)
RedisExpire(c) ==
  /\ turn.pc = "idle"
  /\ turnCount < MaxTurns
  /\ redis[c] # NoMemory
  /\ redis[c].old
  /\ redis' = [redis EXCEPT ![c] = NoMemory]
  /\ UNCHANGED <<dbRows, memoryCache, turn, lastResult, accepted, turnCount>>
  /\ UNCHANGED <<redisUp, queueVars, auxVars>>

MAX_RETRIES == 3

\* generateReply's loop before its first attempt: the outcome of each call of
\* anthropic.messages.create made so far, the delays awaited so far (seconds)
IdleLlm == [pc |-> "done", attempt |-> 0, outcomes |-> <<>>, waits |-> <<>>, result |-> ""]

\* no context-memory call made yet
NoOp ==
  [name |-> "", before |-> NoMemory, issued |-> FALSE, ok |-> TRUE,
   result |-> "", threw |-> FALSE, count |-> 0]

\* the two runs before their first message
NoTwin == [a |-> NoMemory, b |-> NoMemory, trace |-> <<>>]

(***************************************************************************)
(* Daily check-in flow (engine/checkin-flow): sessions, reply vocabulary,  *)
(* the weight pattern                                                      *)
(***************************************************************************)
\* the session window, 2 * 60 * 60 * 1000 ms and CHECKIN_SESSION_TTL_SEC, in hours
CHECKIN_TTL == 2

\* sendDailyCheckin calls modelled
MaxSessions == 2

\* phones with a client project
CheckinPhones == {"A"}

\* no entry in activeSessions / no key in tier 2
NoSession == [step |-> "none"]

\* session.data = {}: Partial<CheckinData>, weightKg in hundredths of a kg
\* (0: absent)
NoData ==
  [shakeAm |-> "unset", shakePm |-> "unset", hydrationOk |-> "unset",
   supplementOk |-> "unset", weightKg |-> 0]

\* the session sendDailyCheckin starts; age: Date.now() - startedAt, in hours
NewSession(id) ==
  [id |-> id, step |-> "waiting_shake_am", data |-> NoData, age |-> 0]

\* the answer each yes/no step records and the step it moves to
StepField ==
  [waiting_shake_am |-> "shakeAm", waiting_shake_pm |-> "shakePm",
   waiting_hydration |-> "hydrationOk", waiting_supplement |-> "supplementOk"]

StepAfterSkipping ==
  [waiting_shake_am |-> "waiting_shake_pm", waiting_shake_pm |-> "waiting_supplement",
   waiting_hydration |-> "waiting_supplement", waiting_supplement |-> "waiting_weight"]

StepAfter ==
  [waiting_shake_am |-> "waiting_shake_pm", waiting_shake_pm |-> "waiting_hydration",
   waiting_hydration |-> "waiting_supplement", waiting_supplement |-> "waiting_weight"]

RECURSIVE TrimStart(_)
TrimStart(s) ==
  IF Len(s) > 0 /\ IsSpace(SubSeq(s, 1, 1)) THEN TrimStart(SubSeq(s, 2, Len(s))) ELSE s

RECURSIVE TrimEnd(_)
TrimEnd(s) ==
  IF Len(s) > 0 /\ IsSpace(SubSeq(s, Len(s), Len(s)))
    THEN TrimEnd(SubSeq(s, 1, Len(s) - 1)) ELSE s

\* s.trim()
Trim(s) == TrimEnd(TrimStart(s))

\* the terms of isYes / isNo; the source's two emoji terms (check mark, cross
\* mark) are left out: no reply of CheckinReplies contains an emoji
YesTerms == {"sim", "s", "yes", "1", "ok", "claro", "tomei", "fiz", "tomado"}
NoTerms == {"não", "nao", "n", "no", "0", "não tomei", "esqueci", "não fiz"}

Digits == "0123456789"
IsDigit(c) == Includes(Digits, c)
DigitValue(c) == (CHOOSE k \in 1..Len(Digits) : SubSeq(Digits, k, k) = c) - 1

RECURSIVE DigitRun(_, _)
\* the length of the maximal run of digits of t that starts at i
DigitRun(t, i) ==
  IF i <= Len(t) /\ IsDigit(SubSeq(t, i, i)) THEN 1 + DigitRun(t, i + 1) ELSE 0

RECURSIVE NumberValue(_)
\* the value of a string of digits
NumberValue(ds) ==
  IF Len(ds) = 0 THEN 0
  ELSE 10 * NumberValue(SubSeq(ds, 1, Len(ds) - 1)) + DigitValue(SubSeq(ds, Len(ds), Len(ds)))

\* the rest of the pattern after the number: (\s*kg)?$ under the i flag
SuffixMatches(rest) == rest = "" \/ ToLowerCase(TrimStart(rest)) = "kg"

\* what the pattern tests the number's first character against
NumberStartAnywhere(t) ==
  IF \E i \in 1..Len(t) : IsDigit(SubSeq(t, i, i))
    THEN CHOOSE i \in 1..Len(t) :
           IsDigit(SubSeq(t, i, i)) /\ \A j \in 1..(i - 1) : ~IsDigit(SubSeq(t, j, j))
    ELSE 1

\* ^ : the number starts the trimmed reply
NumberStart(t) == 1

\* message.trim().match(/^(\d{2,3}([.,]\d{1,2})?)(\s*kg)?$/i) and
\* parseFloat(weightMatch[1].replace(',', '.')): the weight in hundredths of a
\* kg, -1 when the reply does not match
ParsedWeight(message) ==
  LET t == Trim(message)
      b == NumberStart(t)
      n == DigitRun(t, b)
      sep == b + n
      hasFraction == sep <= Len(t) /\ SubSeq(t, sep, sep) \in {".", ","}
      f == IF hasFraction THEN DigitRun(t, sep + 1) ELSE 0
      end == IF hasFraction THEN sep + f ELSE sep - 1
      fraction == SubSeq(t, sep + 1, sep + f)
  IN IF /\ n \in {2, 3}
        /\ hasFraction => f \in {1, 2}
        /\ SuffixMatches(SubSeq(t, end + 1, Len(t)))
       THEN 100 * NumberValue(SubSeq(t, b, b + n - 1))
            + (IF f = 1 THEN 10 * NumberValue(fraction) ELSE NumberValue(fraction))
       ELSE -1

\* the weight step's reading of the reply: isPular, the match and the
\* 30..300 bound; the weight stored in session.data.weightKg (0: none)
WeightOf(message) ==
  LET text == Trim(ToLowerCase(message))
      isPular == Includes(text, "pular") \/ Includes(text, "skip")
                 \/ text = "n" \/ text = "não"
      weight == IF isPular THEN -1 ELSE ParsedWeight(message)
  IN IF weight >= 3000 /\ weight <= 30000 THEN weight ELSE 0

\* replies a client can send during a check-in
CheckinReplies ==
  {"Sim", "não", "talvez", "68.5", "dia 30", "PULAR", " 72,25 kg", "29", "300.5", "não tomei"}

\* the reading of each reply, evaluated once
IsYes == [m \in CheckinReplies |-> IncludesAny(Trim(ToLowerCase(m)), YesTerms)]
IsNo == [m \in CheckinReplies |-> IncludesAny(Trim(ToLowerCase(m)), NoTerms)]
WeightIn == [m \in CheckinReplies |-> WeightOf(m)]

\* no processCheckin call awaited
NoAward ==
  [pc |-> "idle", phone |-> "", message |-> "", before |-> NoSession, data |-> NoData]

\* no inbound message at the router
NoInbound == [phone |-> "", message |-> ""]

\* no inbound message routed yet
NoCheckin ==
  [route |-> "", handled |-> FALSE, reply |-> "", before |-> NoSession,
   threw |-> FALSE]

CheckinIdle ==
  /\ activeSessions = [p \in CheckinPhones |-> NoSession]
  /\ checkinRedis = [p \in CheckinPhones |-> NoSession]
  /\ award = NoAward
  /\ inbound = NoInbound
  /\ lastCheckin = NoCheckin
  /\ sessionCount = 0

(***************************************************************************)
(* Daily check-in flow: sendDailyCheckin, the router of                    *)
(* handleIncomingMessage, handleCheckinResponse                            *)
(***************************************************************************)
nonCheckinVars ==
  <<queueVars, dialogVars, llm, lastOp, persistedCopy, twin, scoreVars, inboundVars, storeVars>>

\* the value redisSet stores under the phone's key, with its TTL in hours
Saved(session) ==
  [id |-> session.id, step |-> session.step, data |-> session.data,
   age |-> session.age, ttl |-> CHECKIN_TTL]

\* the session handleCheckinResponse rebuilds from the value redisGet returned
Restored(raw) ==
  [id |-> raw.id, step |-> raw.step, data |-> raw.data, age |-> raw.age]

\* _saveCheckinSession(session): fire-and-forget redisSet, errors swallowed
SaveCheckinSession(p, session, ok) ==
  checkinRedis' = IF redisUp /\ ok
                    THEN [checkinRedis EXCEPT ![p] = Saved(session)]
                    ELSE checkinRedis

\* _deleteCheckinSession(phone): fire-and-forget redisDel, errors swallowed
DeleteCheckinSession(p, ok) ==
  checkinRedis' = IF redisUp /\ ok
                    THEN [checkinRedis EXCEPT ![p] = NoSession]
                    ELSE checkinRedis

ExpiredLate(session) == session.age > CHECKIN_TTL + 1

\* Date.now() - startedAt > 2 * 60 * 60 * 1000
Expired(session) == session.age > CHECKIN_TTL

AfterRepromptDropped(session) == NoSession

\* the re-prompt branch returns without touching the session
AfterReprompt(session) == session

\* sendDailyCheckin(params): the new session replaces the phone's entry
SendDailyCheckin(p, ok) ==
  /\ sessionCount < MaxSessions
  /\ inbound = NoInbound
  /\ sessionCount' = sessionCount + 1
  /\ activeSessions' = [activeSessions EXCEPT ![p] = NewSession(sessionCount + 1)]
  /\ SaveCheckinSession(p, NewSession(sessionCount + 1), ok)
  /\ UNCHANGED <<award, inbound, lastCheckin>>
  /\ UNCHANGED nonCheckinVars

\* what handleIncomingMessage does with the result: the reply is sent and the
\* handler returns when handled && reply, otherwise the message goes on to
\* the conversation engine
Routed(handled, reply, before) ==
  [route |-> IF handled /\ reply # "" THEN "checkin" ELSE "dialog",
   handled |-> handled, reply |-> reply, before |-> before, threw |-> FALSE]

\* the session handleCheckinResponse works on: tier 1, else tier 2
SessionOf(p) ==
  IF activeSessions[p] # NoSession THEN activeSessions[p]
  ELSE IF redisUp /\ checkinRedis[p] # NoSession THEN Restored(checkinRedis[p])
  ELSE NoSession

\* a yes/no step: record isYes under the step's field, move to the next step
Answered(session, isYes) ==
  [session EXCEPT !.data[StepField[session.step]] = IF isYes THEN "true" ELSE "false",
                  !.step = StepAfter[session.step]]

\* the weight step: store the weight if the reply is one, step = 'done'
Weighed(session, message) ==
  [session EXCEPT !.data.weightKg = WeightIn[message], !.step = "done"]

\* the data handleCheckinResponse passes to processCheckin (?? false)
CheckinData(data) ==
  [k \in DOMAIN data |->
     IF k = "weightKg" THEN data[k]
     ELSE IF data[k] = "unset" THEN "false" ELSE data[k]]

\* handleCheckinResponse(phone, message) on the session it found, up to its
\* return or its await of processCheckin
Respond(p, message, session, ok) ==
  IF session = NoSession
    THEN /\ lastCheckin' = Routed(FALSE, "", NoSession)
         /\ UNCHANGED <<activeSessions, checkinRedis, award>>
  ELSE IF Expired(session)
    THEN /\ activeSessions' = [activeSessions EXCEPT ![p] = NoSession]
         /\ DeleteCheckinSession(p, ok)
         /\ lastCheckin' = Routed(FALSE, "", session)
         /\ UNCHANGED award
  ELSE IF ~IsYes[message] /\ ~IsNo[message] /\ session.step # "waiting_weight"
    THEN /\ activeSessions' = [activeSessions EXCEPT ![p] = AfterReprompt(session)]
         /\ lastCheckin' = Routed(TRUE, "reprompt", session)
         /\ UNCHANGED <<checkinRedis, award>>
  ELSE IF session.step \in DOMAIN StepField
    THEN /\ activeSessions' = [activeSessions EXCEPT ![p] = Answered(session, IsYes[message])]
         /\ SaveCheckinSession(p, Answered(session, IsYes[message]), ok)
         /\ lastCheckin' = Routed(TRUE, "question", session)
         /\ UNCHANGED award
  ELSE IF session.step = "waiting_weight"
    THEN /\ activeSessions' = [activeSessions EXCEPT ![p] = NoSession]
         /\ DeleteCheckinSession(p, ok)
         /\ award' = [pc |-> "awaiting", phone |-> p, message |-> message,
                      before |-> session,
                      data |-> CheckinData(Weighed(session, message).data)]
         /\ UNCHANGED lastCheckin
  ELSE /\ activeSessions' = [activeSessions EXCEPT ![p] = NoSession]
       /\ DeleteCheckinSession(p, ok)
       /\ lastCheckin' = Routed(FALSE, "", session)
       /\ UNCHANGED award

\* handleCheckinResponse(phone, message)
HandleCheckinResponse(p, message, ok) == Respond(p, message, SessionOf(p), ok)

\* handleIncomingMessage(message, consultantPhone) up to its router: the text
\* is extracted, the consultant and the lead are looked up
ReceiveMessage(p, message) ==
  /\ inbound = NoInbound
  /\ award.pc = "idle"
  /\ inbound' = [phone |-> p, message |-> message]
  /\ lastCheckin' = NoCheckin
  /\ UNCHANGED <<activeSessions, checkinRedis, award, sessionCount>>
  /\ UNCHANGED nonCheckinVars

\* handleIncomingMessage's router: hasActiveCheckinSession(senderPhone) looks
\* at tier 1 only and removes an expired session; with an active session the
\* message goes to handleCheckinResponse
RouteMessage(p, message, ok) ==
  /\ inbound = [phone |-> p, message |-> message]
  /\ inbound' = NoInbound
  /\ IF activeSessions[p] = NoSession
       THEN /\ lastCheckin' = Routed(FALSE, "", NoSession)
            /\ UNCHANGED <<activeSessions, checkinRedis, award>>
     ELSE IF Expired(activeSessions[p])
       THEN /\ activeSessions' = [activeSessions EXCEPT ![p] = NoSession]
            /\ DeleteCheckinSession(p, ok)
            /\ lastCheckin' = Routed(FALSE, "", activeSessions[p])
            /\ UNCHANGED award
     ELSE HandleCheckinResponse(p, message, ok)
  /\ UNCHANGED sessionCount
  /\ UNCHANGED nonCheckinVars

CheckinThrowsUncaught(ok) == ~ok

\* the try / catch around processCheckin: the error is logged, not rethrown
CheckinThrows(ok) == FALSE

\* processCheckin settles (ok: it returned its result, otherwise it threw) and
\* handleCheckinResponse returns; the handler sends the reply
ProcessCheckinSettles(ok) ==
  /\ award.pc = "awaiting"
  /\ award' = NoAward
  /\ lastCheckin' =
       [route |-> IF CheckinThrows(ok) THEN "" ELSE "checkin",
        handled |-> ~CheckinThrows(ok),
        reply |-> IF CheckinThrows(ok) THEN "" ELSE IF ok THEN "summary" ELSE "ack",
        before |-> award.before,
        threw |-> CheckinThrows(ok)]
  /\ UNCHANGED <<activeSessions, checkinRedis, inbound, sessionCount>>
  /\ UNCHANGED nonCheckinVars

\* session ages above which nothing changes any more
MaxAge == CHECKIN_TTL + 1

Older(session) ==
  IF session = NoSession THEN session
  ELSE [session EXCEPT !.age = IF @ < MaxAge THEN @ + 1 ELSE @]

\* an hour passes: sessions age, tier-2 keys run towards their TTL
CheckinTick ==
  /\ award.pc = "idle"
  /\ inbound = NoInbound
  /\ \E p \in CheckinPhones :
       \/ activeSessions[p] # NoSession /\ activeSessions[p].age < MaxAge
       \/ checkinRedis[p] # NoSession
  /\ activeSessions' = [p \in CheckinPhones |-> Older(activeSessions[p])]
  /\ checkinRedis' =
       [p \in CheckinPhones |->
          IF checkinRedis[p] = NoSession \/ checkinRedis[p].ttl = 1 THEN NoSession
          ELSE [Older(checkinRedis[p]) EXCEPT !.ttl = @ - 1]]
  /\ UNCHANGED <<award, inbound, lastCheckin, sessionCount>>
  /\ UNCHANGED nonCheckinVars

\* the process restarts: the activeSessions map is empty again
CheckinRestart ==
  /\ award.pc = "idle"
  /\ inbound = NoInbound
  /\ \E p \in CheckinPhones : activeSessions[p] # NoSession
  /\ activeSessions' = [p \in CheckinPhones |-> NoSession]
  /\ UNCHANGED <<checkinRedis, award, inbound, lastCheckin, sessionCount>>
  /\ UNCHANGED nonCheckinVars

(***************************************************************************)
(* Initial values of the history variables                                 *)
(***************************************************************************)
AuxInit ==
  /\ llm = IdleLlm
  /\ lastOp = NoOp
  /\ persistedCopy = NoMemory
  /\ twin = NoTwin
  /\ CheckinIdle
  /\ ScoreIdle
  /\ InboundIdle
  /\ StoreIdle

(***************************************************************************)
(* generateReply attempt by attempt: the retry loop around the LLM call    *)
(***************************************************************************)
BackoffFlat(attempt) == 2

\* setTimeout(res, attempt * 2000), in seconds
Backoff(attempt) == attempt * 2

\* the loop as this call of generateReply sees it: a call that begins starts
\* at attempt = 1 with nothing tried
LoopState == IF llm.pc = "done" THEN [IdleLlm EXCEPT !.pc = "call", !.attempt = 1] ELSE llm

\* one pass of the for loop: anthropic.messages.create answers with a text
\* block (ok) and the text is returned, or it throws / answers with a
\* non-text block and the catch either returns the fallback text
\* (attempt = MAX_RETRIES) or goes on to the delay
LlmAttempt(ok) ==
  /\ turn.pc = "llm"
  /\ llm.pc # "backoff"
  /\ LoopState.attempt <= MAX_RETRIES
  /\ LET tried == [LoopState EXCEPT !.outcomes = Append(@, ok)]
     IN IF ok
          THEN /\ ReplyReturned(TRUE)
               /\ llm' = [tried EXCEPT !.pc = "done", !.result = "completion"]
          ELSE IF tried.attempt = MAX_RETRIES
            THEN /\ ReplyReturned(FALSE)
                 /\ llm' = [tried EXCEPT !.pc = "done", !.result = "fallback"]
            ELSE /\ llm' = [tried EXCEPT !.pc = "backoff"]
                 /\ UNCHANGED <<dialogVars, queueVars>>
  /\ UNCHANGED <<lastOp, persistedCopy, twin>>
  /\ UNCHANGED flowVars

\* the delay after a failed attempt has elapsed; the loop increments attempt
BackoffElapsed ==
  /\ turn.pc = "llm"
  /\ llm.pc = "backoff"
  /\ llm' = [llm EXCEPT !.pc = "call", !.attempt = @ + 1,
                        !.waits = Append(@, Backoff(llm.attempt))]
  /\ UNCHANGED <<dialogVars, queueVars>>
  /\ UNCHANGED <<lastOp, persistedCopy, twin>>
  /\ UNCHANGED flowVars

(***************************************************************************)
(* The exported operations of engine/context-memory, called one at a time  *)
(* on one conversation                                                     *)
(***************************************************************************)
\* context-memory calls in a behaviour
MaxOps == 4
\* the conversation the calls address
MemConv == 1

PersistThrowsUncaught(ok) == ~ok

\* _persistToRedis: redisSet catches the command's error and the promise is
\* not awaited (.catch), so the caller never sees a failure
PersistThrows(ok) == FALSE

\* the record of a call
Op(name, before, issued, ok, result) ==
  [name |-> name, before |-> before, issued |-> issued, ok |-> ok,
   result |-> result, threw |-> issued /\ PersistThrows(ok),
   count |-> lastOp.count + 1]

\* a call that mutates the entry when there is one: `after` is the entry it
\* leaves, `writes` whether it calls _persistToRedis
Mutate(name, after, writes, ok) ==
  LET before == memoryCache[MemConv] IN
  /\ lastOp.count < MaxOps
  /\ turn.pc = "idle"
  /\ IF before = NoMemory
       THEN /\ lastOp' = Op(name, before, FALSE, ok, "")
            /\ UNCHANGED <<memoryCache, redis, persistedCopy>>
       ELSE /\ memoryCache' = [memoryCache EXCEPT ![MemConv] = after]
            /\ IF writes THEN RedisSet(MemConv, after, ok) ELSE UNCHANGED redis
            /\ lastOp' = Op(name, before, writes, ok, "")
            /\ persistedCopy' = IF after = before THEN persistedCopy ELSE NoMemory
  /\ UNCHANGED <<dbRows, redisUp, turn, lastResult, accepted, turnCount, llm, twin>>
  /\ UNCHANGED flowVars
  /\ UNCHANGED queueVars

\* addMessage(conversationId, role, content)
OpAddMessage(role, ok) ==
  Mutate("addMessage", AddMessage(memoryCache[MemConv], role), TRUE, ok)

\* updateContext(conversationId, updates)
OpUpdateContext(updates, ok) ==
  Mutate("updateContext", UpdateContext(memoryCache[MemConv], updates), TRUE, ok)

\* advanceStage(conversationId)
OpAdvanceStage(ok) ==
  Mutate("advanceStage", AdvanceStage(memoryCache[MemConv]), TRUE, ok)

\* addSignal(conversationId, signal): pushes and writes only a new signal
OpAddSignal(signal, ok) ==
  Mutate("addSignal", AddSignals(memoryCache[MemConv], {signal}),
         signal \notin memoryCache[MemConv].signals, ok)

\* updateHandoffScore(conversationId, score)
OpUpdateHandoffScore(score, ok) ==
  Mutate("updateHandoffScore", UpdateHandoffScore(memoryCache[MemConv], score),
         TRUE, ok)

\* restoreMemory(params) with the fields of the conversation's durable row
OpRestoreMemory(ok) ==
  LET after == RestoreMemory(dbRows[MemConv]) IN
  /\ lastOp.count < MaxOps
  /\ turn.pc = "idle"
  /\ dbRows[MemConv] # NoRow
  /\ memoryCache' = [memoryCache EXCEPT ![MemConv] = after]
  /\ RedisSet(MemConv, after, ok)
  /\ lastOp' = Op("restoreMemory", memoryCache[MemConv], TRUE, ok, "")
  /\ UNCHANGED <<dbRows, redisUp, turn, lastResult, accepted, turnCount, llm,
                 persistedCopy, twin>>
  /\ UNCHANGED flowVars
  /\ UNCHANGED queueVars

\* getMemoryAsync(conversationId); ok: the GET command succeeded
OpGetMemoryAsync(ok) ==
  LET before == memoryCache[MemConv]
      raw == IF redisUp /\ ok THEN redis[MemConv] ELSE NoMemory
  IN
  /\ lastOp.count < MaxOps
  /\ turn.pc = "idle"
  /\ memoryCache' = IF before = NoMemory /\ raw # NoMemory
                      THEN [memoryCache EXCEPT ![MemConv] = raw]
                      ELSE memoryCache
  /\ lastOp' = [Op("getMemoryAsync", before, FALSE, ok,
                   IF before # NoMemory THEN "cached"
                   ELSE IF raw # NoMemory THEN "restored" ELSE "null")
                  EXCEPT !.threw = FALSE]
  /\ UNCHANGED <<dbRows, redisUp, redis, turn, lastResult, accepted, turnCount,
                 llm, persistedCopy, twin>>
  /\ UNCHANGED flowVars
  /\ UNCHANGED queueVars

\* persistConversation(memory, 'active', false): serializeMemory, then
\* db.conversations.update answers (ok) or fails (logged and swallowed)
OpPersist(ok) ==
  LET before == memoryCache[MemConv] IN
  /\ lastOp.count < MaxOps
  /\ turn.pc = "idle"
  /\ dbRows[MemConv] # NoRow
  /\ dbRows' = IF before # NoMemory /\ ok
                 THEN [dbRows EXCEPT ![MemConv] = Persisted(@, before, "active", FALSE)]
                 ELSE dbRows
  /\ persistedCopy' = IF before # NoMemory /\ ok THEN before ELSE persistedCopy
  /\ lastOp' = [Op("persistConversation", before, FALSE, ok, "") EXCEPT !.threw = FALSE]
  /\ UNCHANGED <<memoryCache, redisUp, redis, turn, lastResult, accepted,
                 turnCount, llm, twin>>
  /\ UNCHANGED flowVars
  /\ UNCHANGED queueVars

\* stages and profiles of the row the conversation may have at the start
MemStages == {"ice_break", "transition", "closed"}
MemProfiles == {"", "business"}

MemoryInit ==
  /\ now = 0
  /\ messageCounters = [p \in Phones |-> NoRecord]
  /\ callLog = <<>>
  /\ sendQueue = <<>>
  /\ isProcessing = FALSE
  /\ procs = {}
  /\ nextId = 1
  /\ taken = <<>>
  /\ started = <<>>
  /\ dropped = {}
  /\ settled = {}
  /\ threw = {}
  /\ directSends = 0
  /\ \E st \in MemStages : \E pt \in MemProfiles :
       dbRows = [c \in ConvIds |->
                   IF c = MemConv
                     THEN [status |-> "active", spin_stage |-> st, messages |-> <<>>,
                           context_data |-> Context("", pt, ""),
                           handoff_triggered |-> FALSE]
                     ELSE NoRow]
  /\ memoryCache = [c \in ConvIds |-> NoMemory]
  /\ redisUp \in BOOLEAN
  /\ redis = [c \in ConvIds |-> NoMemory]
  /\ turn = IdleTurn
  /\ lastResult = NoResult
  /\ accepted = {}
  /\ turnCount = 0
  /\ AuxInit

MemoryNext ==
  \/ \E role \in {"user", "assistant"} : \E ok \in BOOLEAN : OpAddMessage(role, ok)
  \/ \E ok \in BOOLEAN : OpUpdateContext([commitment_accepted |-> TRUE], ok)
  \/ \E ok \in BOOLEAN : OpAdvanceStage(ok)
  \/ \E ok \in BOOLEAN : OpAddSignal("shared_pain", ok)
  \/ \E ok \in BOOLEAN : OpUpdateHandoffScore(80, ok)
  \/ \E ok \in BOOLEAN : OpRestoreMemory(ok)
  \/ \E ok \in BOOLEAN : OpGetMemoryAsync(ok)
  \/ \E ok \in BOOLEAN : OpPersist(ok)
  \/ DayPasses
  \/ CleanOldMemories
  \/ \E c \in ConvIds : RedisExpire(c)

\* an earlier conversation of the lead as the durable store holds it: the
\* row left by `advances` product-track turns that each advanced the stage
EarlierRow(advances) ==
  [status |-> "active", spin_stage |-> PRODUCT_FLOW[advances + 1],
   messages |-> [i \in 1..(2 * advances) |-> IF i % 2 = 1 THEN "user" ELSE "assistant"],
   context_data |-> Context("", "", ""), handoff_triggered |-> FALSE]

\* stages of the conversation the lead may already have when the process starts
EarlierAdvances == {0, 3, 4}

DialogInit ==
  /\ dbRows \in {[c \in ConvIds |-> NoRow]}
                \cup {[c \in ConvIds |-> IF c = 1 THEN EarlierRow(k) ELSE NoRow] :
                        k \in EarlierAdvances}
  /\ memoryCache = [c \in ConvIds |-> NoMemory]
  /\ redisUp \in BOOLEAN
  /\ redis = [c \in ConvIds |-> NoMemory]
  /\ turn = IdleTurn
  /\ lastResult = NoResult
  /\ accepted = {}
  /\ turnCount = 0
  /\ now = 0
  /\ messageCounters = [p \in Phones |-> NoRecord]
  /\ callLog = <<>>
  /\ sendQueue = <<>>
  /\ isProcessing = FALSE
  /\ procs = {}
  /\ nextId = 1
  /\ taken = <<>>
  /\ started = <<>>
  /\ dropped = {}
  /\ settled = {}
  /\ threw = {}
  /\ directSends = 0
  /\ AuxInit

DialogNext ==
  \/ \E m \in Inbox : ProcessMessageStart(m, "")
  \/ \E pt \in {"product", "business"} : InitiateConversationStart(pt)
  \/ \E ok \in BOOLEAN : FindActive(ok)
  \/ RedisGet
  \/ \E ok \in BOOLEAN : CreateConversation(ok)
  \/ \E ok \in BOOLEAN : GenerateReply(ok)
  \/ \E ok \in BOOLEAN : PersistConversation(ok)
  \/ DayPasses
  \/ CleanOldMemories
  \/ Restart
  \/ \E c \in ConvIds : RedisExpire(c)

QueueInit ==
  /\ now = 0
  /\ messageCounters = [p \in Phones |-> NoRecord]
  /\ callLog = <<>>
  /\ sendQueue = <<>>
  /\ isProcessing = FALSE
  /\ procs = {}
  /\ nextId = 1
  /\ taken = <<>>
  /\ started = <<>>
  /\ dropped = {}
  /\ settled = {}
  /\ threw = {}
  /\ directSends = 0
  /\ dbRows = [c \in ConvIds |-> NoRow]
  /\ memoryCache = [c \in ConvIds |-> NoMemory]
  /\ redisUp = FALSE
  /\ redis = [c \in ConvIds |-> NoMemory]
  /\ turn = IdleTurn
  /\ lastResult = NoResult
  /\ accepted = {}
  /\ turnCount = 0
  /\ AuxInit

vars == <<queueVars, dialogVars, auxVars>>

RateInit == QueueInit

RateNext ==
  \/ \E p \in Phones : RateCall(p)
  \/ Tick
  \/ CleanCounters

SpecRate == RateInit /\ [][RateNext]_vars

QueueStep ==
  \/ \E p \in procs : Immediate(p)
  \/ \E p \in procs : SendStart(p)
  \/ \E p \in procs : \E ok \in BOOLEAN : SendDone(p, ok)
  \/ \E p \in procs : DelayElapsed(p)

QueueNext ==
  \/ \E ph \in Phones : \E n \in 1..2 : EnqueueSend(ph, n)
  \/ QueueStep
  \/ Tick
  \/ CleanCounters
  \/ DirectSendStart
  \/ DirectSendDone

SpecQueue == QueueInit /\ [][QueueNext]_vars

\* the queue on its own, the clock standing still: every action settles and
\* every timer fires (the runtime runs each pending continuation)
QueueFairNext ==
  \/ \E ph \in Phones : \E n \in 1..2 : EnqueueSend(ph, n)
  \/ QueueStep

SpecQueueFair == QueueInit /\ [][QueueFairNext]_vars /\ WF_vars(QueueStep)

SpecDialog == DialogInit /\ [][DialogNext]_vars

SpecMemory == MemoryInit /\ [][MemoryNext]_vars

(***************************************************************************)
(* Two runs of processMessage on the same inbound messages, each with its  *)
(* own LLM outcomes; the stores answer and nothing is evicted in either    *)
(***************************************************************************)
\* what generateReply can return: the LLM's text or the fallback text
LlmOutcomes == {"completion", "fallback"}

\* the ConversationResult of the call and the memory the lead's next message
\* finds (none after a handoff, which leaves the conversation 'negotiating')
RunResult(u, r, reply) ==
  [memory |-> IF u.handoff THEN NoMemory ELSE r.memory,
   result |-> [reply |-> reply, spinStage |-> r.stage,
               handoffTriggered |-> u.handoff, handoffScore |-> u.score,
               nextAction |-> r.nextAction]]

\* the call from generateReply's return on (u: what AfterUserMessage computed)
RunAfter(u, msg, reply) ==
  RunResult(u, AfterReply(u.memory, IF u.handoff THEN "handoff" ELSE "normal",
                          msg, reply), reply)

\* one call of processMessage on the conversation memory `start` (NoMemory:
\* the lead has no active conversation and getOrCreateConversation creates
\* one) when generateReply returns `reply`
RunTurn(start, msg, reply) ==
  RunAfter(AfterUserMessage(IF start = NoMemory
                              THEN CreateMemory(Context("", "", "")) ELSE start,
                            msg), msg, reply)

\* both runs start from the same stored conversation, rebuilt by
\* getOrCreateConversation from its row
TwinRestore(advances) ==
  /\ twin = NoTwin
  /\ twin' = [twin EXCEPT !.a = RestoreMemory(EarlierRow(advances)),
                          !.b = RestoreMemory(EarlierRow(advances))]
  /\ UNCHANGED <<queueVars, dialogVars, llm, lastOp, persistedCopy>>
  /\ UNCHANGED flowVars

\* the two runs after the turn
TwinAfter(msg, ra, rb) ==
  [a |-> ra.memory, b |-> rb.memory,
   trace |-> Append(twin.trace, [msg |-> msg, a |-> ra.result, b |-> rb.result])]

\* the lead sends msg; generateReply returns replyA in one run and replyB in
\* the other
TwinTurn(msg, replyA, replyB) ==
  /\ Len(twin.trace) < MaxTurns
  /\ twin' = TwinAfter(msg, RunTurn(twin.a, msg, replyA), RunTurn(twin.b, msg, replyB))
  /\ UNCHANGED <<queueVars, dialogVars, llm, lastOp, persistedCopy>>
  /\ UNCHANGED flowVars

TwinNext ==
  \/ \E k \in EarlierAdvances : TwinRestore(k)
  \/ \E m \in Inbox : \E replyA \in LlmOutcomes : \E replyB \in LlmOutcomes :
       TwinTurn(m, replyA, replyB)

SpecTwin == QueueInit /\ [][TwinNext]_vars

\* turns of processMessage / initiateConversation with generateReply's loop
\* taken attempt by attempt
ReplyNext ==
  \/ \E m \in Inbox : ProcessMessageStart(m, "")
  \/ \E pt \in {"product", "business"} : InitiateConversationStart(pt)
  \/ \E ok \in BOOLEAN : FindActive(ok)
  \/ RedisGet
  \/ \E ok \in BOOLEAN : CreateConversation(ok)
  \/ \E ok \in BOOLEAN : LlmAttempt(ok)
  \/ BackoffElapsed
  \/ \E ok \in BOOLEAN : PersistConversation(ok)

SpecReply == DialogInit /\ [][ReplyNext]_vars

\* turns of processMessage on replies of 25 characters, the stores answering
\* or failing, nothing evicted
ScenarioNext ==
  \/ \E m \in Replies25 : ProcessMessageStart(m, "")
  \/ \E ok \in BOOLEAN : FindActive(ok)
  \/ RedisGet
  \/ \E ok \in BOOLEAN : CreateConversation(ok)
  \/ \E ok \in BOOLEAN : GenerateReply(ok)
  \/ \E ok \in BOOLEAN : PersistConversation(ok)

SpecScenario == DialogInit /\ [][ScenarioNext]_vars

CheckinInit ==
  /\ now = 0
  /\ messageCounters = [p \in Phones |-> NoRecord]
  /\ callLog = <<>>
  /\ sendQueue = <<>>
  /\ isProcessing = FALSE
  /\ procs = {}
  /\ nextId = 1
  /\ taken = <<>>
  /\ started = <<>>
  /\ dropped = {}
  /\ settled = {}
  /\ threw = {}
  /\ directSends = 0
  /\ dbRows = [c \in ConvIds |-> NoRow]
  /\ memoryCache = [c \in ConvIds |-> NoMemory]
  /\ redisUp \in BOOLEAN
  /\ redis = [c \in ConvIds |-> NoMemory]
  /\ turn = IdleTurn
  /\ lastResult = NoResult
  /\ accepted = {}
  /\ turnCount = 0
  /\ AuxInit

CheckinNext ==
  \/ \E p \in CheckinPhones : \E ok \in BOOLEAN : SendDailyCheckin(p, ok)
  \/ \E p \in CheckinPhones : \E m \in CheckinReplies : ReceiveMessage(p, m)
  \/ \E p \in CheckinPhones : \E m \in CheckinReplies : \E ok \in BOOLEAN :
       RouteMessage(p, m, ok)
  \/ \E ok \in BOOLEAN : ProcessCheckinSettles(ok)
  \/ CheckinTick
  \/ CheckinRestart

SpecCheckin == CheckinInit /\ [][CheckinNext]_vars

(***************************************************************************)
(* Inbound messages: the closure handleIncomingMessage hands to            *)
(* enqueueSend, run by processQueue                                        *)
(***************************************************************************)
inboundFrame ==
  <<now, messageCounters, callLog, sendQueue, isProcessing, nextId, taken,
    started, dropped, threw, directSends, dialogVars, llm, lastOp,
    persistedCopy, twin, checkinVars, scoreVars, storeVars>>

\* the closure of activation p moves to pc, its activation waits on
Step(p, pc) ==
  /\ turns' = [turns EXCEPT ![p.item.id] = [pc |-> pc]]
  /\ UNCHANGED <<procs, settled>>

\* the closure of activation p resolves (its own try/catch took any error)
Resolve(p) ==
  /\ turns' = [turns EXCEPT ![p.item.id] = [pc |-> "done"]]
  /\ procs' = (procs \ {p}) \cup {[p EXCEPT !.pc = AfterExecute(TRUE)]}
  /\ settled' = settled \cup {p.item.id}

\* addMessage on the lead's entry, by the turn of item id
Said(messages, id, role) == Append(messages, [id |-> id, role |-> role])

\* await sendTyping(...) settles; processMessage is called and awaits
\* getOrCreateConversation
TypingDone(p, ok) ==
  /\ p.pc = "execute"
  /\ turns[p.item.id].pc = "none"
  /\ IF ok THEN Step(p, "resolve") ELSE Resolve(p)
  /\ UNCHANGED <<conversation, inboundFrame>>

\* getOrCreateConversation settles; the user message is added, signals and
\* context are updated; processMessage awaits generateReply
ConversationResolved(p) ==
  /\ p.pc = "execute"
  /\ turns[p.item.id].pc = "resolve"
  /\ Step(p, "llm")
  /\ conversation' =
       [conversation EXCEPT ![p.item.phone] = Said(@, p.item.id, "user")]
  /\ UNCHANGED inboundFrame

\* generateReply settles; the reply is added, the stage decided;
\* processMessage awaits persistConversation
ReplyGenerated(p) ==
  /\ p.pc = "execute"
  /\ turns[p.item.id].pc = "llm"
  /\ Step(p, "persist")
  /\ conversation' =
       [conversation EXCEPT ![p.item.phone] = Said(@, p.item.id, "assistant")]
  /\ UNCHANGED inboundFrame

\* persistConversation settles; processMessage returns; the closure awaits
\* sendText
TurnPersisted(p) ==
  /\ p.pc = "execute"
  /\ turns[p.item.id].pc = "persist"
  /\ Step(p, "reply")
  /\ UNCHANGED <<conversation, inboundFrame>>

\* sendText settles (a rejection is caught by the closure)
ReplySent(p, ok) ==
  /\ p.pc = "execute"
  /\ turns[p.item.id].pc = "reply"
  /\ Resolve(p)
  /\ UNCHANGED <<conversation, inboundFrame>>

InboundNext ==
  \/ \E ph \in Phones : EnqueueSend(ph, 1)
  \/ \E p \in procs : \E ok \in BOOLEAN : TypingDone(p, ok)
  \/ \E p \in procs : ConversationResolved(p)
  \/ \E p \in procs : ReplyGenerated(p)
  \/ \E p \in procs : TurnPersisted(p)
  \/ \E p \in procs : \E ok \in BOOLEAN : ReplySent(p, ok)
  \/ \E p \in procs : DelayElapsed(p)
  \/ \E p \in procs : Immediate(p)
  \/ Tick

SpecInbound == QueueInit /\ [][InboundNext]_vars

(***************************************************************************)
(* The lead scorer's functions, one call each                              *)
(***************************************************************************)
nonScoreVars ==
  <<queueVars, dialogVars, llm, lastOp, persistedCopy, twin, checkinVars, inboundVars, storeVars>>

HandoffDecided(baseScore, signals, score) ==
  [pc |-> "done", baseScore |-> baseScore, signals |-> signals,
   score |-> score, handoff |-> ShouldHandoff(score)]

\* calculateHandoffScore(baseScore, signals), then shouldHandoff of its result
ScoreHandoff(baseScore, signals) ==
  /\ handoffCall.pc = "idle"
  /\ handoffCall' = HandoffDecided(baseScore, signals,
                               CalculateHandoffScore(baseScore, signals))
  /\ UNCHANGED <<nonScoreVars, intent>>

HandoffNext ==
  \E baseScore \in BaseScores, signals \in SUBSET AllSignals :
    ScoreHandoff(baseScore, signals)

SpecHandoff == QueueInit /\ [][HandoffNext]_vars

\* scoreIntent(text)
ScoreIntent(text) ==
  /\ intent.pc = "idle"
  /\ intent' = [pc |-> "done", text |-> text,
                raw |-> RawScores(Normalize(text)),
                score |-> ScoreIntentOf(text)]
  /\ UNCHANGED <<nonScoreVars, handoffCall>>

IntentNext == \E text \in IntentTexts : ScoreIntent(text)

SpecIntent == QueueInit /\ [][IntentNext]_vars

(***************************************************************************)
(* Claims about the send queue and the rate limiter                        *)
(***************************************************************************)
Range(f) == {f[i] : i \in DOMAIN f}
QueuedIds == {sendQueue[i].id : i \in DOMAIN sendQueue}
Running == {p \in procs : p.pc \in {"execute", "sending"}}
Finished == settled \cup dropped

\* C1: actions are started in enqueue order: the start order is increasing
\* in enqueue number, and while an action runs every item enqueued before it
\* has already been executed (settled) or dropped.
C1_StartedInEnqueueOrder ==
  /\ \A i, j \in DOMAIN started : i < j => started[i] < started[j]
  /\ \A p \in Running : \A k \in 1..(p.item.id - 1) : k \in Finished

\* C1 witness: A1, B2, A3 all started, A3 last, after A1 and B2 settled
C1_Witness ==
  /\ Len(started) = 3
  /\ \E p \in Running : p.item.id = 3 /\ p.item.phone = "A"
  /\ settled = {1, 2}

\* C2: at most one queued action executes at a time, and an item is shifted
\* off the queue only when no activation is executing an action or sleeping
\* the delay (the only activation, if any, is the one being resumed).
C2_SingleConsumer ==
  /\ [](Cardinality(Running) <= 1 /\ Cardinality(procs) <= 1)
  /\ [][Len(taken') > Len(taken) =>
          \A p \in procs : p.pc = "immediate"]_vars

\* C2 witness: enqueueSend was called while an action was in progress
C2_Witness ==
  /\ Running # {}
  /\ sendQueue # <<>>
  /\ Len(taken) >= 2

\* C3: at most one outbound send is in flight at any time system-wide
C3_OneSendInFlight ==
  Cardinality({p \in procs : p.pc = "sending"}) + directSends <= 1

\* C3, the part the code keeps: sends issued by queued actions never overlap
C3_QueuedSendsSerial ==
  Cardinality({p \in procs : p.pc = "sending"}) <= 1

\* C6: an item dropped by the rate limit is never executed, is not back in
\* the queue, is never taken a second time, and the processor carries on:
\* its activation is scheduled to run processQueue again, or already did.
C6_DroppedNotRetried ==
  \A i \in dropped :
    /\ i \notin Range(started)
    /\ i \notin QueuedIds
    /\ Cardinality({k \in DOMAIN taken : taken[k] = i}) = 1
    /\ \/ \E p \in procs : p.item.id = i /\ p.pc = "immediate" /\ isProcessing
       \/ taken[Len(taken)] # i
       \/ procs = {} /\ sendQueue = <<>> /\ ~isProcessing

\* C6 witness: an item was dropped and the item behind it was then started
C6_Witness ==
  \E i \in dropped : \E k \in DOMAIN started : started[k] > i

\* C7: every enqueued item eventually leaves the queue, an action is
\* executed at most once even if it throws, and the processor is idle only
\* when the queue is empty.
C7_QueueDrains ==
  /\ [](~isProcessing => sendQueue = <<>>)
  /\ [](\A i, j \in DOMAIN started : i # j => started[i] # started[j])
  /\ [](\A i \in threw : i \in settled /\ i \notin QueuedIds)
  /\ \A i \in 1..(MaxItems + 1) : (i \in QueuedIds) ~> (i \in Finished)
  /\ \A i \in 1..(MaxItems + 1) : (i \in threw) ~> (procs = {} \/ taken[Len(taken)] # i)

\* C7 witness: an action threw and a later item was executed after it
C7_Witness ==
  \E i \in threw : \E k \in DOMAIN started : started[k] > i /\ started[k] \in settled


\* calls for the same phone as call k, made before it, newest first
PrevCalls(k) == {j \in 1..(k - 1) : callLog[j].phone = callLog[k].phone}
PrevCall(k) == CHOOSE j \in PrevCalls(k) : \A i \in PrevCalls(k) : i <= j
\* allowed calls before call k that fall in the same window of the same phone
AllowedBefore(k) ==
  {j \in PrevCalls(k) : callLog[j].windowStart = callLog[k].windowStart
                        /\ callLog[j].allowed}

C5_RefusedCallIsNoOp ==
  /\ [](\A p \in Phones : messageCounters[p].count <= MaxPerHour)
  /\ [][Len(callLog') > Len(callLog) =>
          LET c == callLog'[Len(callLog')] IN
            /\ \A p \in Phones \ {c.phone} : messageCounters'[p] = messageCounters[p]
            /\ ~c.allowed => messageCounters'[c.phone] = messageCounters[c.phone]]_vars

\* C5 witness: a call was refused while the other recipient has a record
C5_Witness ==
  /\ callLog # <<>>
  /\ ~callLog[Len(callLog)].allowed
  /\ \E p \in Phones \ {callLog[Len(callLog)].phone} : messageCounters[p] # NoRecord

(***************************************************************************)
(* Claims about the dialogue engine                                        *)
(***************************************************************************)
\* the last call was processMessage and it has returned its result
Returned == lastResult.kind = "message"

\* C8: a processMessage turn whose handoff score, after folding in the
\* message's signals, is at or above 75 while commitment_accepted is not set
\* returns handoffTriggered = true and nextAction 'handoff', reports no
\* context update, and leaves the context (commitment flag included) and the
\* stage exactly as the turn found them: advanceStage was not called.
C8_HandoffShortCircuit ==
  (/\ Returned
   /\ lastResult.handoffScore >= HandoffThreshold
   /\ ~lastResult.before.context.commitment_accepted)
  => /\ lastResult.handoffTriggered
     /\ lastResult.nextAction = "handoff"
     /\ lastResult.contextUpdated = <<>>
     /\ lastResult.after.context = lastResult.before.context
     /\ lastResult.after.spinStage = lastResult.before.spinStage
     /\ lastResult.spinStage = lastResult.before.spinStage
     /\ lastResult.advance = NoAdvance

\* C8 witness: a turn at the commitment stage, profile still unknown, scored
\* exactly 75 and returned the handoff; its message carried business
\* vocabulary and an interest signal that the later logic would have used
C8_Witness ==
  /\ Returned
  /\ lastResult.handoffTriggered
  /\ lastResult.handoffScore = HandoffThreshold
  /\ lastResult.before.spinStage = "commitment"
  /\ lastResult.before.context.profile_type = ""
  /\ lastResult.after.spinStage = "commitment"

\* C9 as stated: once a conversation's commitment_accepted flag has been
\* set, no later processMessage turn of that conversation returns
\* handoffTriggered = true.
C9_NoHandoffOnceAccepted ==
  Returned /\ lastResult.acceptedBefore => ~lastResult.handoffTriggered

\* C9 amended: a processMessage turn whose conversation memory, as
\* getOrCreateConversation returned it, has commitment_accepted true never
\* returns handoffTriggered = true whatever the score; and no step clears the
\* flag of a memory that stays in tier 1 (the flag can only be lost with the
\* tier-1 entry, when the memory is rebuilt from an older copy).
C9_GuardedByFlag ==
  /\ [](Returned /\ lastResult.before.context.commitment_accepted
          => ~lastResult.handoffTriggered /\ lastResult.nextAction # "handoff")
  /\ [][\A c \in ConvIds :
          (/\ memoryCache[c] # NoMemory
           /\ memoryCache[c].context.commitment_accepted
           /\ memoryCache'[c] # NoMemory)
          => memoryCache'[c].context.commitment_accepted]_vars

\* C9 witness: a turn found the flag set, scored 75 or more, and did not
\* hand off
C9_Witness ==
  /\ Returned
  /\ lastResult.before.context.commitment_accepted
  /\ lastResult.handoffScore >= HandoffThreshold
  /\ ~lastResult.handoffTriggered

\* C10: every advanceStage call made by a turn moves the conversation from
\* its stage to the immediately following stage of the sequence selected by
\* the context's profile_type (staying on the last stage once there).
C10_AdvanceToNextStage ==
  Returned /\ lastResult.advance # NoAdvance =>
    LET flow == FlowOf([profile_type |-> lastResult.advance.profile])
    IN \E i \in DOMAIN flow :
         /\ flow[i] = lastResult.advance.from
         /\ lastResult.advance.to = flow[Min(i + 1, Len(flow))]

(***************************************************************************)
(* Claims about the conversation memory                                    *)
(***************************************************************************)
\* this step is a context-memory call
Called == lastOp'.count > lastOp.count
\* this step is the call `name` made on an existing tier-1 entry
CalledOnEntry(name) ==
  Called /\ lastOp'.name = name /\ lastOp'.before # NoMemory

\* C11: advanceStage called on a conversation at 'closed' leaves it at
\* 'closed', whichever sequence its profile selects, however often it is
\* called, and the caller sees no exception; no call moves the stage outside
\* the selected sequence.
C11_SaturatesAtClosed ==
  [][CalledOnEntry("advanceStage") =>
       /\ ~lastOp'.threw
       /\ memoryCache'[MemConv].spinStage
            \in Range(FlowOf(lastOp'.before.context))
       /\ lastOp'.before.spinStage = "closed"
            => memoryCache'[MemConv].spinStage = "closed"]_vars

\* C11 witness: advanceStage was called on a business-profile conversation
\* already at 'closed', for at least the second time, and it is at 'closed'
C11_Witness ==
  /\ lastOp.name = "advanceStage"
  /\ lastOp.count >= 4
  /\ lastOp.before # NoMemory
  /\ lastOp.before.spinStage = "closed"
  /\ lastOp.before.context.profile_type = "business"
  /\ memoryCache[MemConv] # NoMemory
  /\ memoryCache[MemConv].spinStage = "closed"
  /\ dbRows[MemConv].spin_stage = "transition"

MutatingOps ==
  {"addMessage", "updateContext", "advanceStage", "addSignal", "updateHandoffScore"}

\* C16: every mutating call on an existing entry (addMessage, updateContext,
\* advanceStage, addSignal, updateHandoffScore) leaves the entry with a
\* lastUpdated inside the sweep's max-age and issues a tier-2 write.
C16_MutationsRefresh ==
  [][\A name \in MutatingOps :
       CalledOnEntry(name) =>
         /\ ~memoryCache'[MemConv].old
         /\ lastOp'.issued]_vars

\* C17: no context-memory call surfaces a tier-2 failure: the caller never
\* sees an exception; getMemoryAsync on a tier-1 miss answers null when the
\* read fails or no client is configured, and tier 1 stays empty; a mutating
\* call whose tier-2 write fails or has no client still changes tier 1 and
\* leaves tier 2 as it was.
C17_TierTwoFailureSilent ==
  [][Called =>
       /\ ~lastOp'.threw
       /\ (/\ lastOp'.name = "getMemoryAsync"
           /\ lastOp'.before = NoMemory
           /\ ~(redisUp /\ lastOp'.ok))
          => lastOp'.result = "null" /\ memoryCache'[MemConv] = NoMemory
       /\ (/\ CalledOnEntry("addMessage")
           /\ ~(redisUp /\ lastOp'.ok))
          => /\ Len(memoryCache'[MemConv].messages)
                  = Len(lastOp'.before.messages) + 1
             /\ redis' = redis]_vars

\* C17 witness: with tier 2 configured, addMessage's write failed; tier 1
\* has the message and tier 2 holds an older copy
C17_Witness ==
  /\ redisUp
  /\ lastOp.name = "addMessage"
  /\ lastOp.issued
  /\ ~lastOp.ok
  /\ memoryCache[MemConv] # NoMemory
  /\ redis[MemConv] # NoMemory
  /\ Len(redis[MemConv].messages) < Len(memoryCache[MemConv].messages)

\* two memories agree on what a conversation knows
SameConversation(m1, m2) ==
  /\ m1.spinStage = m2.spinStage
  /\ m1.messages = m2.messages
  /\ m1.context = m2.context
  /\ m1.signals = m2.signals
  /\ m1.handoffScore = m2.handoffScore

\* C18: an entry that was persisted, then removed by the sweep, and is
\* rebuilt from the durable row has the same stage, messages, context,
\* signals and handoff score as the entry that was persisted.
C18_EvictionLosesNothing ==
  [][(/\ Called
      /\ lastOp'.name = "restoreMemory"
      /\ lastOp'.before = NoMemory
      /\ persistedCopy # NoMemory)
     => SameConversation(memoryCache'[MemConv], persistedCopy)]_vars

(***************************************************************************)
(* Claims about stages, replies and persistence across turns               *)
(***************************************************************************)
\* C12: in every reachable state with no call in progress the stage of a
\* conversation, in tier 1 and in its durable row, is a member of the
\* sequence selected by the profile_type stored with it.
C12_StageInSelectedFlow ==
  turn.pc = "idle" =>
  \A c \in ConvIds :
    /\ memoryCache[c] # NoMemory =>
         memoryCache[c].spinStage \in Range(FlowOf(memoryCache[c].context))
    /\ dbRows[c] # NoRow =>
         dbRows[c].spin_stage \in Range(FlowOf(dbRows[c].context_data))

Replies == {"completion", "fallback"}

\* this step ends a processMessage call (it returns or rejects)
TurnEnds ==
  /\ turn.kind = "message"
  /\ turn.pc # "idle"
  /\ turn'.pc = "idle"
  /\ lastResult' # lastResult

\* C13: every processMessage call ends by returning a result with a reply
\* string, whichever external call failed during it; it never rejects.
C13_EveryTurnReplies ==
  [][TurnEnds => lastResult'.kind = "message" /\ lastResult'.reply \in Replies]_vars

IsPrefix(s, t) == Len(s) <= Len(t) /\ SubSeq(t, 1, Len(s)) = s

\* the message list a lookup of conversation c yields: tier 1, else tier 2,
\* else the durable row
ConvMessages(c) ==
  IF memoryCache[c] # NoMemory THEN memoryCache[c].messages
  ELSE IF redisUp /\ redis[c] # NoMemory THEN redis[c].messages
  ELSE IF dbRows[c] # NoRow THEN dbRows[c].messages
  ELSE <<>>

\* messageCount equals the list's length, in every tier-1 entry
CountIsLength ==
  \A c \in ConvIds :
    memoryCache[c] # NoMemory =>
      memoryCache[c].messageCount = Len(memoryCache[c].messages)

\* this step is the process dying in the middle of a call
Aborted == turn.pc # "idle" /\ turn'.pc = "idle" /\ lastResult' = lastResult

LlmCalls == Len(llm.outcomes)

\* C14: generateReply calls the LLM at most 3 times per turn; a successful
\* call is the last one and its completion is the reply the turn carries on
\* with; the delay awaited after the first failure is 2s and after the second
\* 4s; after three failures the loop is over with the fallback text as the
\* reply, and the turn goes on to persistConversation (nothing was thrown).
C14_BoundedRetries ==
  /\ LlmCalls <= 3
  /\ \A i \in 1..LlmCalls :
        llm.outcomes[i] => /\ i = LlmCalls
                           /\ llm.pc = "done"
                           /\ llm.result = "completion"
  /\ Len(llm.waits) <= 2
  /\ \A i \in 1..Len(llm.waits) : llm.waits[i] = 2 * i
  /\ llm.pc = "call" => Len(llm.waits) = LlmCalls
  /\ llm.pc = "backoff" => Len(llm.waits) = LlmCalls - 1
  /\ (llm.pc = "done" /\ LlmCalls > 0) =>
        /\ Len(llm.waits) = LlmCalls - 1
        /\ (\A i \in 1..LlmCalls : ~llm.outcomes[i]) =>
              /\ LlmCalls = 3
              /\ llm.waits = <<2, 4>>
              /\ llm.result = "fallback"
        /\ turn.pc = "persist" => /\ turn.reply = llm.result
                                  /\ lastResult.kind # "threw"

\* three attempts failed, both delays were awaited and the turn has the
\* fallback text as its reply
C14_Witness ==
  /\ llm.outcomes = <<FALSE, FALSE, FALSE>>
  /\ llm.waits = <<2, 4>>
  /\ turn.pc = "persist"
  /\ turn.reply = "fallback"


(***************************************************************************)
(* Claims about the independence of the stage logic from the LLM           *)
(***************************************************************************)
\* what a ConversationResult reports besides the reply text
Observed(result) ==
  <<result.spinStage, result.handoffScore, result.handoffTriggered, result.nextAction>>

\* C20: two runs that start from the same conversation and receive the same
\* inbound messages, with whatever LLM outcomes each gets, report the same
\* stage, handoff score, handoffTriggered and nextAction at every turn, and
\* leave the conversation at the same stage with the same score.
C20_StageIndependentOfLlm ==
  /\ \A i \in 1..Len(twin.trace) :
        Observed(twin.trace[i].a) = Observed(twin.trace[i].b)
  /\ twin.a.spinStage = twin.b.spinStage
  /\ twin.a # NoMemory => twin.a.handoffScore = twin.b.handoffScore

\* the LLM answered in one run and failed in the other, and the stage
\* advanced in that turn
C20_Witness ==
  /\ Len(twin.trace) = 2
  /\ twin.trace[1].a.reply = "completion"
  /\ twin.trace[1].b.reply = "fallback"
  /\ ~twin.trace[1].a.handoffTriggered
  /\ twin.trace[2].a.spinStage # twin.trace[1].a.spinStage


(***************************************************************************)
(* Claims about the 25-character reply at ice_break                        *)
(***************************************************************************)
\* processMessage returns for a reply of 25 characters to a conversation that
\* getOrCreateConversation returned at 'ice_break' with profile_type unset
ReplyAtIceBreak ==
  /\ turn.pc = "persist"
  /\ turn.kind = "message"
  /\ Len(turn.msg) = 25
  /\ turn.before.spinStage = "ice_break"
  /\ turn.before.context.profile_type = ""
  /\ lastResult'.kind = "message"

\* C21: a reply of 25 characters to a conversation at ice_break with
\* profile_type unset leaves the conversation at 'situation', and the turn
\* sets profile_type to 'business' only if the reply contains business
\* vocabulary (renda, dinheiro, negócio, empreend).
C21_ReplyAdvancesToSituation ==
  [][ReplyAtIceBreak =>
       /\ lastResult'.after.spinStage = "situation"
       /\ lastResult'.after.context.profile_type = "business" =>
             IncludesAny(ToLowerCase(turn.msg), {"renda", "dinheiro", "negócio", "empreend"})]_vars


(***************************************************************************)
(* Claims about the daily check-in                                         *)
(***************************************************************************)
\* the order of the steps
CheckinOrder ==
  <<"waiting_shake_am", "waiting_shake_pm", "waiting_hydration",
    "waiting_supplement", "waiting_weight">>

StepIndex(step) == CHOOSE i \in DOMAIN CheckinOrder : CheckinOrder[i] = step

\* the answer each yes/no step collects
AnswerAt ==
  <<"shakeAm", "shakePm", "hydrationOk", "supplementOk">>

\* the router takes the inbound message of phone p
Routing(p) == inbound # NoInbound /\ inbound.phone = p /\ inbound' = NoInbound

\* the phone's session is in tier 1 and not older than 2 hours
Live(p) == activeSessions[p] # NoSession /\ activeSessions[p].age <= 2

\* C22: a session only moves from a step to the step right after it in the
\* order shake_am, shake_pm, hydration, supplement, weight, and only when the
\* router takes a reply of its phone; the move records the reply's yes/no
\* reading as that step's answer, which was not set before, and leaves the
\* other answers alone; the entry of a phone is otherwise only removed or
\* replaced by a new session at the first step, so no step is skipped,
\* repeated or revisited.
C22_LinearSteps ==
  [][\A p \in CheckinPhones :
       /\ (activeSessions[p] # NoSession /\ activeSessions[p]' # NoSession
           /\ activeSessions[p]'.id = activeSessions[p].id) =>
            \/ /\ activeSessions[p]'.step = activeSessions[p].step
               /\ activeSessions[p]'.data = activeSessions[p].data
            \/ /\ Routing(p)
               /\ StepIndex(activeSessions[p].step) <= 4
               /\ StepIndex(activeSessions[p]'.step) = StepIndex(activeSessions[p].step) + 1
               /\ activeSessions[p].data[AnswerAt[StepIndex(activeSessions[p].step)]] = "unset"
               /\ activeSessions[p]'.data =
                    [activeSessions[p].data EXCEPT
                       ![AnswerAt[StepIndex(activeSessions[p].step)]] =
                          IF IsYes[inbound.message] THEN "true" ELSE "false"]
       /\ (activeSessions[p]' # NoSession
           /\ (activeSessions[p] = NoSession
               \/ activeSessions[p]'.id # activeSessions[p].id)) =>
            /\ activeSessions[p]'.step = "waiting_shake_am"
            /\ activeSessions[p]'.data = NoData
            /\ activeSessions[p]'.id > sessionCount]_vars

\* a session has reached the weight step with its four answers recorded
C22_Witness ==
  \E p \in CheckinPhones :
    /\ activeSessions[p] # NoSession
    /\ activeSessions[p].step = "waiting_weight"
    /\ activeSessions[p].data.shakeAm = "true"
    /\ activeSessions[p].data.shakePm = "false"
    /\ activeSessions[p].data.hydrationOk = "true"
    /\ activeSessions[p].data.supplementOk = "false"

\* C23: when the router takes a reply that matches neither the yes nor the no
\* vocabulary for a live session at a yes/no step, the reply is answered with
\* the re-prompt (handled, sent) and the session, with its step and answers,
\* stays as it was in tier 1; no awarder call is started.
C23_AmbiguousReplyReprompts ==
  [][\A p \in CheckinPhones :
       (/\ Routing(p)
        /\ Live(p)
        /\ activeSessions[p].step # "waiting_weight"
        /\ ~IsYes[inbound.message]
        /\ ~IsNo[inbound.message]) =>
          /\ lastCheckin'.handled
          /\ lastCheckin'.reply = "reprompt"
          /\ lastCheckin'.route = "checkin"
          /\ ~lastCheckin'.threw
          /\ activeSessions[p]' = activeSessions[p]
          /\ award' = award]_vars

\* 'talvez' was re-prompted at the hydration step and the session is still there
C23_Witness ==
  \E p \in CheckinPhones :
    /\ lastCheckin.reply = "reprompt"
    /\ lastCheckin.before.step = "waiting_hydration"
    /\ activeSessions[p] = lastCheckin.before

\* C24: when the router takes a reply for a phone whose session is older than
\* 2 hours, the session is removed from tier 1 without being advanced, nothing
\* is thrown, the reply is not handled by the check-in and goes on to the
\* dialogue flow; with no session for the phone the reply goes on to the
\* dialogue flow as well and nothing changes.
C24_ExpiredFallsThrough ==
  [][\A p \in CheckinPhones :
       /\ (Routing(p) /\ activeSessions[p] # NoSession /\ activeSessions[p].age > 2) =>
            /\ activeSessions[p]' = NoSession
            /\ ~lastCheckin'.handled
            /\ lastCheckin'.route = "dialog"
            /\ ~lastCheckin'.threw
            /\ award' = award
       /\ (Routing(p) /\ activeSessions[p] = NoSession) =>
            /\ activeSessions[p]' = NoSession
            /\ ~lastCheckin'.handled
            /\ lastCheckin'.route = "dialog"
            /\ ~lastCheckin'.threw
            /\ award' = award
            /\ checkinRedis' = checkinRedis]_vars

\* a reply found a session older than 2 hours in the middle of its steps
C24_Witness ==
  \E p \in CheckinPhones :
    /\ lastCheckin.before # NoSession
    /\ lastCheckin.before.age > 2
    /\ lastCheckin.before.step = "waiting_hydration"
    /\ lastCheckin.route = "dialog"
    /\ activeSessions[p] = NoSession

\* the reply t is n digits, then (f > 0) a separator and f digits, then
\* (kg) k white spaces and 'kg'
HasShape(t, n, f, k, kg) ==
  /\ Len(t) = n + (IF f > 0 THEN 1 + f ELSE 0) + (IF kg THEN k + 2 ELSE 0)
  /\ \A i \in 1..n : IsDigit(SubSeq(t, i, i))
  /\ f > 0 => /\ SubSeq(t, n + 1, n + 1) \in {".", ","}
              /\ \A i \in (n + 2)..(n + 1 + f) : IsDigit(SubSeq(t, i, i))
  /\ kg => /\ \A i \in (Len(t) - k - 1)..(Len(t) - 2) : SubSeq(t, i, i) = " "
           /\ SubSeq(t, Len(t) - 1, Len(t)) \in {"kg", "Kg", "kG", "KG"}

Shapes == (2..3) \X (0..2) \X (0..3) \X BOOLEAN

\* the value of a reply of that shape, in hundredths
ShapeValue(t, n, f) ==
  100 * NumberValue(SubSeq(t, 1, n))
  + (IF f = 1 THEN 10 * NumberValue(SubSeq(t, n + 2, n + 2))
     ELSE IF f = 2 THEN NumberValue(SubSeq(t, n + 2, n + 3)) ELSE 0)

\* the weight the claim says is stored for a reply (0: none)
ClaimedWeight(message) ==
  LET t == Trim(message)
      fits == {sh \in Shapes :
                 /\ HasShape(t, sh[1], sh[2], sh[3], sh[4])
                 /\ ShapeValue(t, sh[1], sh[2]) >= 3000
                 /\ ShapeValue(t, sh[1], sh[2]) <= 30000}
  IN IF fits = {} THEN 0
     ELSE LET sh == CHOOSE x \in fits : TRUE IN ShapeValue(t, sh[1], sh[2])

\* C25: the weight handed to the awarder by the reply at the weight step is
\* the reply's value when the whole reply is 2-3 digits, an optional fraction
\* of 1-2 digits and an optional 'kg', with a value within 30..300, and no
\* weight otherwise: '68.5' gives 68.5 and 'dia 30' gives none.
C25_WeightStoredIffAnchoredMatch ==
  award.pc = "awaiting" =>
    /\ award.data.weightKg = ClaimedWeight(award.message)
    /\ award.message = "68.5" => award.data.weightKg = 6850
    /\ award.message = "dia 30" => award.data.weightKg = 0

\* '68.5' was the reply at the weight step
C25_Witness ==
  /\ award.pc = "awaiting"
  /\ award.message = "68.5"
  /\ award.data.weightKg = 6850
  /\ award.before.step = "waiting_weight"

\* the router takes the reply of phone p to a live session at the weight step
Completing(p) ==
  Routing(p) /\ Live(p) /\ activeSessions[p].step = "waiting_weight"

\* the awaited awarder call settles
Settling == award.pc = "awaiting" /\ award'.pc = "idle"

\* C26: the reply at the weight step removes the session from tier 1 and from
\* tier 2 and starts the awarder call; when that call settles, thrown or
\* not, the reply is handled and answered (the generic acknowledgement if
\* it threw) and nothing is thrown to the handler.
C26_CompletionRemovesSession ==
  [][/\ \A p \in CheckinPhones :
          Completing(p) =>
            /\ activeSessions[p]' = NoSession
            /\ checkinRedis[p]' = NoSession
            /\ award'.pc = "awaiting"
     /\ Settling =>
          /\ lastCheckin'.handled
          /\ lastCheckin'.reply \in {"summary", "ack"}
          /\ lastCheckin'.route = "checkin"
          /\ ~lastCheckin'.threw]_vars

\* C26 as the code has it: the session is removed from tier 1 and the awarder
\* call is started; the tier-2 key is removed or, when the delete command
\* fails, left as it was until its TTL runs out; no session is ever put back
\* into tier 1 from tier 2; the settled call is answered as above.
C26_CompletionRemovesTierOne ==
  [][/\ \A p \in CheckinPhones :
          /\ Completing(p) =>
               /\ activeSessions[p]' = NoSession
               /\ checkinRedis[p]' \in {NoSession, checkinRedis[p]}
               /\ award'.pc = "awaiting"
          /\ (activeSessions[p] = NoSession /\ activeSessions[p]' # NoSession) =>
               activeSessions[p]' = NewSession(sessionCount + 1)
     /\ Settling =>
          /\ lastCheckin'.handled
          /\ lastCheckin'.reply \in {"summary", "ack"}
          /\ lastCheckin'.route = "checkin"
          /\ ~lastCheckin'.threw]_vars

\* the awarder threw and the check-in was acknowledged
C26_Witness ==
  /\ lastCheckin.reply = "ack"
  /\ lastCheckin.handled
  /\ lastCheckin.before.step = "waiting_weight"
  /\ \A p \in CheckinPhones : activeSessions[p] = NoSession


(***************************************************************************)
(* Claims about the lead scorer                                            *)
(***************************************************************************)
\* C27: the handoff decision is true exactly when the score is at least 75;
\* the score calculateHandoffScore returns is within 0..100; with the single
\* signal 'rejected' on a base score of at most 40 it is exactly 0.
C27_HandoffScoreClamped ==
  handoffCall.pc = "done" =>
    /\ handoffCall.handoff <=> handoffCall.score >= 75
    /\ handoffCall.score >= 0
    /\ handoffCall.score <= 100
    /\ (handoffCall.signals = {"rejected"} /\ handoffCall.baseScore <= 40) =>
         handoffCall.score = 0

\* 'rejected' on a base score of 40 gave 0, and a negative base as well
C27_Witness ==
  /\ handoffCall.pc = "done"
  /\ handoffCall.signals = {"rejected"}
  /\ handoffCall.baseScore = 40
  /\ handoffCall.score = 0
  /\ ~handoffCall.handoff

\* C28: each sub-score scoreIntent returns is its category's raw sum cut at
\* 100, so within 0..100 however many keywords matched, and the total is the
\* integer nearest to the mean of the three sub-scores.
C28_SubScoresClamped ==
  intent.pc = "done" =>
    /\ \A k \in {"productScore", "businessScore", "urgencyScore"} :
         intent.score[k] >= 0 /\ intent.score[k] <= 100
    /\ intent.score.productScore =
         (IF intent.raw.product > 100 THEN 100 ELSE intent.raw.product)
    /\ intent.score.businessScore =
         (IF intent.raw.business > 100 THEN 100 ELSE intent.raw.business)
    /\ intent.score.urgencyScore =
         (IF intent.raw.urgency > 100 THEN 100 ELSE intent.raw.urgency)
    /\ 3 * intent.score.totalScore - 1 <=
         intent.score.productScore + intent.score.businessScore + intent.score.urgencyScore
    /\ 3 * intent.score.totalScore + 1 >=
         intent.score.productScore + intent.score.businessScore + intent.score.urgencyScore

\* a text whose product and business keywords each sum to more than 100
C28_Witness ==
  /\ intent.pc = "done"
  /\ intent.raw.product > 100
  /\ intent.raw.business > 100
  /\ intent.score.productScore = 100
  /\ intent.score.businessScore = 100
  /\ intent.score.urgencyScore = 40
  /\ intent.score.totalScore = 80

\* C29: primaryProfile is 'both' when product and business are both at least
\* 30, else 'product' or 'business' for the one that is, else 'none';
\* priority is 'immediate' when the total is at least 70 or urgency at least
\* 60, else 'nurturing' when the total is at least 40, else 'passive'; a text
\* that matches no keyword has all sub-scores 0, profile 'none' and priority
\* 'passive'.
C29_ProfileAndPriorityFromThresholds ==
  intent.pc = "done" =>
    /\ intent.score.primaryProfile =
         (IF intent.score.productScore >= 30 /\ intent.score.businessScore >= 30
            THEN "both"
          ELSE IF intent.score.productScore >= 30 THEN "product"
          ELSE IF intent.score.businessScore >= 30 THEN "business"
          ELSE "none")
    /\ intent.score.priority =
         (IF intent.score.totalScore >= 70 \/ intent.score.urgencyScore >= 60
            THEN "immediate"
          ELSE IF intent.score.totalScore >= 40 THEN "nurturing"
          ELSE "passive")
    /\ intent.score.matchedKeywords = NoRaw =>
         /\ intent.score.productScore = 0
         /\ intent.score.businessScore = 0
         /\ intent.score.urgencyScore = 0
         /\ intent.score.totalScore = 0
         /\ intent.score.primaryProfile = "none"
         /\ intent.score.priority = "passive"

\* a greeting matched no keyword
C29_Witness ==
  /\ intent.pc = "done"
  /\ intent.text = "olá, bom dia"
  /\ intent.score.matchedKeywords = NoRaw
  /\ intent.score.primaryProfile = "none"
  /\ intent.score.priority = "passive"


(***************************************************************************)
(* Claims about two inbound messages of one lead                           *)
(***************************************************************************)
\* processMessage has been called for the item and has not returned: it is
\* suspended at the durable store or at the LLM
Suspended(id) == turns[id].pc \in {"resolve", "llm", "persist"}

\* the item's closure has been started and has not resolved
Executing(id) == \E p \in procs : p.item.id = id /\ p.pc = "execute"

\* a step that takes the item off the queue or moves its closure on
Proceeds(id) ==
  /\ InboundNext
  /\ \/ turns[id]' # turns[id]
     \/ \A i \in DOMAIN sendQueue' : sendQueue[i]' .id # id

\* C30 as claimed: while a turn is suspended at an external call, the turn
\* of a later message of the same lead that is waiting in the queue can
\* start: a step that takes it off the queue is possible.
C30_SecondTurnCanStart ==
  \A p \in procs : \A i \in DOMAIN sendQueue :
    (Suspended(p.item.id) /\ sendQueue[i].phone = p.item.phone) =>
       ENABLED Proceeds(sendQueue[i].id)

\* C30 as the code has it: the closures the handler enqueues run one at a
\* time, so at most one processMessage turn is in progress, and each lead's
\* messages are whole turns one after the other: a user message is directly
\* followed by the reply of the same turn unless it is the last one.
C30_TurnsSerialized ==
  /\ \A id1, id2 \in 1..MaxItems :
       (Executing(id1) /\ Executing(id2)) => id1 = id2
  /\ \A id \in 1..MaxItems : Suspended(id) => Executing(id)
  /\ \A ph \in Phones : \A i \in DOMAIN conversation[ph] :
       /\ conversation[ph][i].role = "user" /\ i < Len(conversation[ph]) =>
            /\ conversation[ph][i + 1].role = "assistant"
            /\ conversation[ph][i + 1].id = conversation[ph][i].id
       /\ conversation[ph][i].role = "assistant" =>
            /\ i > 1
            /\ conversation[ph][i - 1].role = "user"
            /\ conversation[ph][i - 1].id = conversation[ph][i].id

\* a second message of the lead is waiting in the queue while the first turn
\* is suspended at the LLM
C30_Witness ==
  \E p \in procs : \E i \in DOMAIN sendQueue :
    /\ turns[p.item.id].pc = "llm"
    /\ sendQueue[i].phone = p.item.phone


(***************************************************************************)
(* Claims about the resolution of a turn's conversation                    *)
(***************************************************************************)
\* the read of the durable store by db.conversations.findActive settles
StoreRead == turn.pc = "findActive" /\ turn'.pc # "findActive"

\* the lead's active conversation has a copy in tier 1 or in tier 2
Cached ==
  /\ ActiveConv # 0
  /\ \/ memoryCache[ActiveConv] # NoMemory
     \/ redisUp /\ redis[ActiveConv] # NoMemory

\* C31: a turn reads the durable store only when its conversation is in
\* neither tier 1 nor tier 2: no turn for a conversation that has a copy in
\* a tier performs a durable-store read.
C31_StoreReadOnlyAfterTierMiss ==
  [][StoreRead => ~Cached]_vars


(***************************************************************************)
(* Claims about a lead's turn after a handoff                              *)
(***************************************************************************)
\* processMessage has its conversation and decides the turn's branch
Deciding ==
  /\ turn.kind = "message"
  /\ turn.pc \in {"findActive", "redisGet", "create"}
  /\ turn'.pc = "llm"

\* conversation c was handed off on an earlier turn and its entry, with the
\* score accumulated so far and the flag unset, is still in tier 1
HandedOff(c) ==
  /\ dbRows[c].status # "none"
  /\ dbRows[c].handoff_triggered
  /\ memoryCache[c] # NoMemory
  /\ ~memoryCache[c].context.commitment_accepted

\* the accumulated score of c with the signals of message m added, within 0..100
Accumulated(c, m) ==
  LET sum == memoryCache[c].handoffScore + SumWeights(SignalsOf[m])
  IN IF sum > 100 THEN 100 ELSE IF sum < 0 THEN 0 ELSE sum

\* C32: after a handoff, the lead's next inbound message whose accumulated
\* handoff score is still at least 75, commitment_accepted being unset,
\* hands off again.
C32_HandoffFiresAgain ==
  [][Deciding =>
       \A c \in ConvIds :
         (HandedOff(c) /\ Accumulated(c, turn.msg) >= 75) =>
            turn'.branch = "handoff"]_vars


(***************************************************************************)
(* Claims about the business track                                         *)
(***************************************************************************)
\* the business stages a conversation is meant to leave
BusinessStages ==
  {"biz_ice_break", "biz_qualification", "biz_implication", "biz_commitment"}

\* C33: every business conversation at a non-terminal business stage has
\* some inbound message for which processMessage decides to advance it.
C33_BusinessTrackAdvances ==
  \A c \in ConvIds :
    (/\ memoryCache[c] # NoMemory
     /\ memoryCache[c].context.profile_type = "business"
     /\ memoryCache[c].spinStage \in BusinessStages) =>
       \E m \in Texts :
         ShouldAdvanceStage(memoryCache[c], SignalsOf[m], LengthOf[m])


(***************************************************************************)
(* Claims about the move from commitment to transition                     *)
(***************************************************************************)
\* C34: a processMessage turn that found its conversation at 'commitment',
\* left it at 'transition' and returned nextAction 'request_whatsapp' leaves
\* commitment_accepted true.
C34_TransitionImpliesAccepted ==
  (/\ lastResult.kind = "message"
   /\ lastResult.before.spinStage = "commitment"
   /\ lastResult.after # NoMemory
   /\ lastResult.after.spinStage = "transition"
   /\ lastResult.nextAction = "request_whatsapp") =>
     lastResult.after.context.commitment_accepted


OnlyInTierTwo(p) ==
  /\ activeSessions[p] = NoSession
  /\ checkinRedis[p] # NoSession
  /\ checkinRedis[p].age < 2

\* C36: a reply from a phone whose session is only in tier 2 and not expired
\* is routed to the check-in flow, which goes on from the stored step.
C36_TierTwoSessionResumes ==
  [][\A p \in CheckinPhones :
       (Routing(p) /\ OnlyInTierTwo(p)) =>
          /\ lastCheckin'.route # "dialog"
          /\ \/ award'.pc = "awaiting"
             \/ lastCheckin'.before.step = checkinRedis[p].step]_vars


(***************************************************************************)
(* Claims about the answers the check-in records                           *)
(***************************************************************************)
\* the router takes a reply of phone p to a live session at a yes/no step
AnsweringYesNo(p) ==
  Routing(p) /\ Live(p) /\ activeSessions[p].step # "waiting_weight"

\* the answer recorded for the step the session of p was at
Recorded(p) ==
  activeSessions[p]'.data[AnswerAt[StepIndex(activeSessions[p].step)]]

\* C37: at a yes/no step a reply that matches the no vocabulary is recorded
\* as false for the step, and a reply that matches the yes vocabulary and
\* not the no vocabulary as true.
C37_NoRecordedAsFalse ==
  [][\A p \in CheckinPhones :
       AnsweringYesNo(p) =>
         /\ IsNo[inbound.message] => Recorded(p) = "false"
         /\ (IsYes[inbound.message] /\ ~IsNo[inbound.message]) =>
              Recorded(p) = "true"]_vars

(***************************************************************************)
(* Leads: getOrCreateLead, as each webhook event's handler runs it         *)
(***************************************************************************)
nonStoreVars ==
  <<queueVars, dialogVars, llm, lastOp, persistedCopy, twin, checkinVars,
    scoreVars, inboundVars>>

\* the ids of the rows of the leads table that carry this phone
RowsOf(rows, phone) == {i \in DOMAIN rows : rows[i] = phone}

\* db.leads.findByPhone: .single() gives the row when exactly one matches,
\* and null (0) when none or several do
FindByPhone(rows, phone) ==
  IF Cardinality(RowsOf(rows, phone)) = 1
    THEN CHOOSE i \in RowsOf(rows, phone) : TRUE
    ELSE 0

LeadStep(h, call) ==
  leadStore' = [leadStore EXCEPT !.calls[h] = call]

\* a webhook event of this sender arrives: handleIncomingMessage gets to
\* getOrCreateLead, which awaits the lookup
GetOrCreateLead(h, phone) ==
  /\ leadStore.calls[h].pc = "none"
  /\ \A g \in 1..(h - 1) : leadStore.calls[g].pc # "none"
  /\ LeadStep(h, [pc |-> "findByPhone", phone |-> phone, lead |-> 0])
  /\ UNCHANGED <<nonStoreVars, gamify, levelCall>>

\* the lookup resolves: an existing lead is returned, otherwise the insert
\* is awaited
LeadLookedUp(h) ==
  LET call == leadStore.calls[h]
      existing == FindByPhone(leadStore.rows, call.phone)
  IN /\ call.pc = "findByPhone"
     /\ LeadStep(h, IF existing # 0
                      THEN [call EXCEPT !.pc = "done", !.lead = existing]
                      ELSE [call EXCEPT !.pc = "create"])
     /\ UNCHANGED <<nonStoreVars, gamify, levelCall>>

\* db.leads.create resolves: the table has one more row (no constraint of
\* the leads table refuses it), and the score upsert is awaited
LeadCreated(h) ==
  LET call == leadStore.calls[h]
  IN /\ call.pc = "create"
     /\ leadStore' = [rows |-> Append(leadStore.rows, call.phone),
                      calls |-> [leadStore.calls EXCEPT
                                   ![h] = [call EXCEPT !.pc = "upsert",
                                             !.lead = Len(leadStore.rows) + 1]]]
     /\ UNCHANGED <<nonStoreVars, gamify, levelCall>>

\* db.leadScores.upsert resolves: getOrCreateLead returns the new id
LeadScored(h) ==
  /\ leadStore.calls[h].pc = "upsert"
  /\ LeadStep(h, [leadStore.calls[h] EXCEPT !.pc = "done"])
  /\ UNCHANGED <<nonStoreVars, gamify, levelCall>>

LeadNext ==
  \E h \in 1..MaxHandlers :
    \/ \E phone \in Phones : GetOrCreateLead(h, phone)
    \/ LeadLookedUp(h)
    \/ LeadCreated(h)
    \/ LeadScored(h)

SpecLeads == QueueInit /\ [][LeadNext]_vars

\* C38: at most one lead per sender phone: the leads table never holds two
\* rows of one phone, and two handlers of one phone that have both resolved
\* their lead (also two that were both suspended between the lookup and the
\* insert) hold the same lead id.
C38_OneLeadPerPhone ==
  /\ \A phone \in Phones : Cardinality(RowsOf(leadStore.rows, phone)) <= 1
  /\ \A g, h \in 1..MaxHandlers :
       (/\ leadStore.calls[g].pc = "done"
        /\ leadStore.calls[h].pc = "done"
        /\ leadStore.calls[g].phone = leadStore.calls[h].phone)
       => leadStore.calls[g].lead = leadStore.calls[h].lead

(***************************************************************************)
(* Gamification engine: levels, processCheckin                             *)
(***************************************************************************)
LEVEL_XP_THRESHOLDS == <<0, 100, 300, 700, 1500, 3000>>

\* LEVEL_NAMES.length - 1
MaxLevel == 6

\* calculateLevel: the highest threshold the total reaches, capped
CalculateLevel(xpTotal) ==
  LET reached == {i \in DOMAIN LEVEL_XP_THRESHOLDS : xpTotal >= LEVEL_XP_THRESHOLDS[i]}
      level == IF reached = {} THEN 1
               ELSE CHOOSE i \in reached : \A j \in reached : j <= i
  IN IF level < MaxLevel THEN level ELSE MaxLevel

XP_REWARDS ==
  [CHECKIN_DAILY |-> 10, SHAKE_AM |-> 15, SHAKE_PM |-> 15, HYDRATION |-> 10,
   SUPPLEMENT |-> 10, WEIGHT_LOGGED |-> 20, STREAK_7 |-> 70, STREAK_14 |-> 140,
   STREAK_21 |-> 210, STREAK_30 |-> 300]

\* the XP of one check-in before the streak bonus
CheckinXp(data) ==
  XP_REWARDS.CHECKIN_DAILY
  + (IF data.shakeAm THEN XP_REWARDS.SHAKE_AM ELSE 0)
  + (IF data.shakePm THEN XP_REWARDS.SHAKE_PM ELSE 0)
  + (IF data.hydrationOk THEN XP_REWARDS.HYDRATION ELSE 0)
  + (IF data.supplementOk THEN XP_REWARDS.SUPPLEMENT ELSE 0)
  + (IF data.weightKg # 0 THEN XP_REWARDS.WEIGHT_LOGGED ELSE 0)

GetStreakBonusXp(streak) ==
  CASE streak = 7 -> XP_REWARDS.STREAK_7
    [] streak = 14 -> XP_REWARDS.STREAK_14
    [] streak = 21 -> XP_REWARDS.STREAK_21
    [] streak = 30 -> XP_REWARDS.STREAK_30
    [] OTHER -> 0

\* the check-ins the two callers pass: nothing done, and everything done
\* with a weight of 70 kg
CheckinInputs ==
  {NoCheckinData,
   [shakeAm |-> TRUE, shakePm |-> TRUE, hydrationOk |-> TRUE,
    supplementOk |-> TRUE, weightKg |-> 70]}

GamifyStep(k, call) ==
  gamify' = [gamify EXCEPT !.calls[k] = call]

GamifyUpdate(k, call, row) ==
  gamify' = [gamify EXCEPT !.calls[k] = call, !.gam = row]

\* processCheckin(projectId, data) is called: it awaits the select of
\* today's daily_checkins row
ProcessCheckin(k, data) ==
  /\ gamify.calls[k].pc \in {"none", "done"}
  /\ gamify.made < MaxCheckinCalls
  /\ gamify' = [gamify EXCEPT
                  !.made = @ + 1,
                  !.calls[k] = [NoCheckinCall EXCEPT !.pc = "select", !.via = k,
                                  !.today = gamify.day, !.data = data]]
  /\ UNCHANGED <<nonStoreVars, leadStore, levelCall>>

\* the select resolves: with a row of today the call returns 0 XP,
\* otherwise the XP is computed and the insert awaited
CheckinSelected(k) ==
  LET call == gamify.calls[k]
  IN /\ call.pc = "select"
     /\ GamifyStep(k, IF call.today \in gamify.checkins
                        THEN [call EXCEPT !.pc = "done", !.returned = 0]
                        ELSE [call EXCEPT !.pc = "insert",
                                !.xpEarned = CheckinXp(call.data)])
     /\ UNCHANGED <<nonStoreVars, leadStore, levelCall>>

\* the insert resolves: unique(project_id, checkin_date) keeps one row per
\* day, and the result of the insert (its error) is not looked at
CheckinInserted(k) ==
  LET call == gamify.calls[k]
  IN /\ call.pc = "insert"
     /\ gamify' = [gamify EXCEPT
                     !.checkins = @ \cup {call.today},
                     !.calls[k] = [call EXCEPT !.pc =
                        IF call.data.weightKg # 0 THEN "weight" ELSE "streakRead"]]
     /\ UNCHANGED <<nonStoreVars, leadStore, levelCall>>

\* the update of client_projects.current_weight_kg resolves
WeightUpdated(k) ==
  /\ gamify.calls[k].pc = "weight"
  /\ GamifyStep(k, [gamify.calls[k] EXCEPT !.pc = "streakRead"])
  /\ UNCHANGED <<nonStoreVars, leadStore, levelCall>>

\* updateStreak's select resolves: the new streak is computed from the row
StreakRead(k) ==
  LET call == gamify.calls[k]
      g == gamify.gam
      isConsecutive == g.last_checkin_at = gamify.day - 1
      newStreak == IF isConsecutive THEN g.current_streak + 1 ELSE 1
  IN /\ call.pc = "streakRead"
     /\ GamifyStep(k, [call EXCEPT !.pc = "streakWrite", !.newStreak = newStreak,
                         !.newMax = IF g.max_streak > newStreak
                                      THEN g.max_streak ELSE newStreak])
     /\ UNCHANGED <<nonStoreVars, leadStore, levelCall>>

\* updateStreak's update resolves; the streak bonus is added and awardXP
\* awaits its select
StreakWritten(k) ==
  LET call == gamify.calls[k]
  IN /\ call.pc = "streakWrite"
     /\ GamifyUpdate(k, [call EXCEPT !.pc = "xpRead",
                           !.xpEarned = @ + GetStreakBonusXp(call.newStreak)],
                     [gamify.gam EXCEPT !.current_streak = call.newStreak,
                                        !.max_streak = call.newMax])
     /\ UNCHANGED <<nonStoreVars, leadStore, levelCall>>

\* awardXP's select resolves: XP_REWARDS[action] + extraXp is the call's XP
XpRead(k) ==
  LET call == gamify.calls[k]
      xpGained == XP_REWARDS.CHECKIN_DAILY + (call.xpEarned - XP_REWARDS.CHECKIN_DAILY)
      newXp == gamify.gam.xp_total + xpGained
  IN /\ call.pc = "xpRead"
     /\ GamifyStep(k, [call EXCEPT !.pc = "xpWrite", !.newXp = newXp,
                         !.newLevel = CalculateLevel(newXp)])
     /\ UNCHANGED <<nonStoreVars, leadStore, levelCall>>

\* awardXP's update resolves; checkAndAwardBadges is awaited
XpWritten(k) ==
  LET call == gamify.calls[k]
  IN /\ call.pc = "xpWrite"
     /\ GamifyUpdate(k, [call EXCEPT !.pc = "badges"],
                     [gamify.gam EXCEPT !.xp_total = call.newXp,
                                        !.level = call.newLevel])
     /\ UNCHANGED <<nonStoreVars, leadStore, levelCall>>

\* checkAndAwardBadges resolves (it writes the badges column only); the
\* select of the counters is awaited
BadgesChecked(k) ==
  /\ gamify.calls[k].pc = "badges"
  /\ GamifyStep(k, [gamify.calls[k] EXCEPT !.pc = "countRead"])
  /\ UNCHANGED <<nonStoreVars, leadStore, levelCall>>

\* the select of the counters resolves: the update is built from it
CountsRead(k) ==
  LET call == gamify.calls[k]
  IN /\ call.pc = "countRead"
     /\ GamifyStep(k, [call EXCEPT !.pc = "countWrite",
                         !.counts = gamify.gam.checkin_count_total,
                         !.stamp = gamify.day])
     /\ UNCHANGED <<nonStoreVars, leadStore, levelCall>>

\* the update of the counters resolves: processCheckin returns its result
CountsWritten(k) ==
  LET call == gamify.calls[k]
  IN /\ call.pc = "countWrite"
     /\ gamify' = [gamify EXCEPT
                     !.calls[k] = [call EXCEPT !.pc = "done",
                                     !.returned = call.xpEarned],
                     !.gam = [@ EXCEPT !.checkin_count_total = call.counts + 1,
                                       !.checkin_count_30d = call.counts + 1,
                                       !.last_checkin_at = call.stamp],
                     !.awards[call.today] = @ + (IF call.xpEarned > 0 THEN 1 ELSE 0)]
     /\ UNCHANGED <<nonStoreVars, leadStore, levelCall>>

\* midnight passes
NextDay ==
  /\ gamify.day < MaxDays
  /\ gamify' = [gamify EXCEPT !.day = @ + 1]
  /\ UNCHANGED <<nonStoreVars, leadStore, levelCall>>

GamifyNext ==
  \/ \E k \in CheckinCallers :
       \/ \E data \in CheckinInputs : ProcessCheckin(k, data)
       \/ CheckinSelected(k)
       \/ CheckinInserted(k)
       \/ WeightUpdated(k)
       \/ StreakRead(k)
       \/ StreakWritten(k)
       \/ XpRead(k)
       \/ XpWritten(k)
       \/ BadgesChecked(k)
       \/ CountsRead(k)
       \/ CountsWritten(k)
  \/ NextDay

SpecGamify == QueueInit /\ [][GamifyNext]_vars

\* C39: at most one check-in per project and calendar day awards XP: of the
\* processCheckin calls of one day (overlapping or not, from the WhatsApp
\* flow or the client API) at most one returns XP, and the check-in counter
\* never exceeds the number of days that have a check-in row.
C39_OneAwardPerDay ==
  /\ \A day \in 1..MaxDays : gamify.awards[day] <= 1
  /\ gamify.gam.checkin_count_total <= Cardinality(gamify.checkins)

(***************************************************************************)
(* The dashboard's level function beside the engine's                      *)
(***************************************************************************)
\* xpToLevel: one level per threshold reached, counted from the lowest and
\* stopping at the first one the total does not reach
XpToLevel(xp) ==
  LET thresholds == <<0, 100, 300, 600, 1000, 1500, 2500, 4000>>
      passed == {i \in DOMAIN thresholds :
                   \A j \in 1..i : xp >= thresholds[j]}
  IN IF passed = {} THEN 1
     ELSE CHOOSE i \in passed : \A j \in passed : j <= i

\* an XP total is taken up
LevelInput(xp) ==
  /\ levelCall.pc = "idle"
  /\ levelCall' = [levelCall EXCEPT !.pc = "given", !.xp = xp]
  /\ UNCHANGED <<nonStoreVars, leadStore, gamify>>

\* the engine computes the level of the total
EngineLevel ==
  /\ levelCall.pc = "given"
  /\ levelCall.engine = 0
  /\ levelCall' = [levelCall EXCEPT !.engine = CalculateLevel(levelCall.xp)]
  /\ UNCHANGED <<nonStoreVars, leadStore, gamify>>

\* the dashboard computes the level of the total
DashboardLevel ==
  /\ levelCall.pc = "given"
  /\ levelCall.dashboard = 0
  /\ levelCall' = [levelCall EXCEPT !.dashboard = XpToLevel(levelCall.xp)]
  /\ UNCHANGED <<nonStoreVars, leadStore, gamify>>

LevelNext ==
  \/ \E xp \in 0..MaxXp : LevelInput(xp)
  \/ EngineLevel
  \/ DashboardLevel

SpecLevel == QueueInit /\ [][LevelNext]_vars

\* C40: the dashboard's xpToLevel is in sync with the engine's
\* calculateLevel: once both have computed the level of an XP total, the
\* two levels are the same.
C40_LevelsInSync ==
  (levelCall.engine # 0 /\ levelCall.dashboard # 0)
    => levelCall.engine = levelCall.dashboard
====
